---- MODULE Spec2Model ----
(***************************************************************************)
(* A model of xparse: the character lexer, the backtracking                *)
(* recursive-descent parser with parse-tree construction and reduction,    *)
(* the NFA combinators with their epsilon-closure cache, the subset        *)
(* construction of a DFA, and the regex front end built from them.         *)
(*                                                                         *)
(* Python values are modelled as records tagged by a field k, so that      *)
(* values of different Python types can be compared.  A raised exception   *)
(* is the name of its class; "" means that nothing was raised.             *)
(***************************************************************************)
EXTENDS Integers, Sequences, FiniteSets, TLC

\* ------------------------------------------------------------------
\*   Bounds of the model
\* ------------------------------------------------------------------

\* Longest input string handed to parse and to match.
MaxLen == 3

\* Most alternatives of a non-terminal in the enumerated grammars.
MaxAlts == 2

\* Most states of the NFAs under construction, taken together.
MaxStates == 8

\* Longest enumerated regex pattern.
MaxPatLen == 3

\* The productions on the stack when a match function is called on its own.
MaxStack == 2

\* ------------------------------------------------------------------
\*   Python values
\* ------------------------------------------------------------------

\* Python's None.
None == [k |-> "None"]

\* The value None of the integer-or-None attribute _lookahead.
LookaheadNone == -1

\* A Python string used as a value (a lexeme).
Str(s) == [k |-> "str", s |-> s]

\* The value of a call of an uninterpreted user function.
App(func, args) == [k |-> "app", func |-> func, args |-> args]

\* A Python int used as a value.
IntValue(n) == [k |-> "int", n |-> n]

\* int(s) for a string of one character.
int(s) ==
    CASE s = "0" -> IntValue(0) [] s = "1" -> IntValue(1) [] s = "2" -> IntValue(2)
      [] s = "3" -> IntValue(3) [] s = "4" -> IntValue(4) [] s = "5" -> IntValue(5)
      [] s = "6" -> IntValue(6) [] s = "7" -> IntValue(7) [] s = "8" -> IntValue(8)
      [] s = "9" -> IntValue(9) [] OTHER -> [k |-> "raised", name |-> "ValueError"]

\* A Python list and the dict {"name": ..., "args": ...} used as values.
List(items) == [k |-> "list", items |-> items]

Dict(name, args) == [k |-> "dict", name |-> name, args |-> args]

\* An exception travelling through a computation of a value.
Raised(name) == [k |-> "raised", name |-> name]

\* ------------------------------------------------------------------
\*   Lexer (xparse/lexer/char_stream.py)
\* ------------------------------------------------------------------

Token(category, lexeme) == [category |-> category, lexeme |-> lexeme]

CharacterStream(admissible, special, escape, general) ==
    [_admissible_characters |-> admissible,
     _special_characters |-> special,
     _escape_character |-> escape,
     _general_class |-> general]

RECURSIVE tokenize_loop(_, _, _, _)
tokenize_loop(lexer, string, i, tokens) ==
    IF i > Len(string) THEN [error |-> "", tokens |-> tokens]
    ELSE LET char == string[i] IN
         IF char = lexer._escape_character
         THEN tokenize_loop(lexer, string, i + 1, tokens)
         ELSE IF lexer._admissible_characters # {}
                 /\ char \notin lexer._admissible_characters
         THEN [error |-> "ValueError", tokens |-> tokens]
         ELSE IF char \notin lexer._special_characters
         THEN tokenize_loop(lexer, string, i + 1,
                  Append(tokens, Token(lexer._general_class, char)))
         ELSE tokenize_loop(lexer, string, i + 1,
                  Append(tokens, Token(char, char)))

\* tokenize without the test against the admissible characters.
tokenize_unchecked(lexer, string) ==
    tokenize_loop([lexer EXCEPT !._admissible_characters = {}], string, 1, <<>>)

tokenize(lexer, string) == tokenize_loop(lexer, string, 1, <<>>)

\* ------------------------------------------------------------------
\*   Grammar values (xparse/grammar.py)
\* ------------------------------------------------------------------

Terminal(name) == [t |-> "Terminal", name |-> name]

NonTerminal(name) == [t |-> "NonTerminal", name |-> name]

Epsilon == [t |-> "Epsilon", name |-> ""]

\* Return(func) has args None, Return(func, args=[...]) a list of indices.
Return(func) == [k |-> "Return", func |-> func, has_args |-> FALSE, args |-> <<>>]

ReturnArgs(func, args) ==
    [k |-> "Return", func |-> func, has_args |-> TRUE, args |-> args]

\* A production: its elements and its Return object, or None.
Production(elements, return_value) ==
    [elements |-> elements, return_value |-> return_value]

\* A production bound into a non-terminal is named by its head and its
\* position among the head's alternatives.
ProductionId(head, index) == [head |-> head, index |-> index]

ProductionOf(grammar, pid) == grammar[pid.head][pid.index]

\* ------------------------------------------------------------------
\*   Recursive-descent matcher (xparse/parser/recursive_descent.py)
\* ------------------------------------------------------------------

\* What a match function leaves behind: its boolean, the exception it
\* raised if any, and the scan state.
Scan(ok, error, lookahead, stack) ==
    [ok |-> ok, error |-> error, lookahead |-> lookahead, stack |-> stack]

_advance_lookahead(tokens, lookahead) ==
    IF lookahead # LookaheadNone
    THEN LET increased == lookahead + 1 IN
         IF increased >= Len(tokens) THEN LookaheadNone ELSE increased
    ELSE lookahead

\* _match_terminal without the comparison of the token's category.
_match_terminal_any_category(tokens, terminal, lookahead, stack) ==
    IF lookahead = LookaheadNone THEN Scan(FALSE, "", lookahead, stack)
    ELSE IF lookahead >= Len(tokens)
    THEN Scan(FALSE, "IndexError", lookahead, stack)
    ELSE Scan(TRUE, "", _advance_lookahead(tokens, lookahead), stack)

_match_terminal(tokens, terminal, lookahead, stack) ==
    IF lookahead = LookaheadNone THEN Scan(FALSE, "", lookahead, stack)
    ELSE IF lookahead >= Len(tokens)
    THEN Scan(FALSE, "IndexError", lookahead, stack)
    ELSE IF tokens[lookahead + 1].category = terminal.name
    THEN Scan(TRUE, "", _advance_lookahead(tokens, lookahead), stack)
    ELSE Scan(FALSE, "", lookahead, stack)

RECURSIVE _match_production_element(_, _, _, _, _)
RECURSIVE _match_production_loop(_, _, _, _, _, _, _)
RECURSIVE _match_non_terminal_loop(_, _, _, _, _, _, _)
RECURSIVE _match_production_step(_, _, _, _, _, _)
RECURSIVE _match_non_terminal_step(_, _, _, _, _, _)

\* The loop of _match_production over the elements from position j on;
\* save is the lookahead on entry of _match_production.
_match_production_loop(grammar, tokens, elements, j, save, lookahead, stack) ==
    IF j > Len(elements) THEN Scan(TRUE, "", lookahead, stack)
    ELSE _match_production_step(grammar, tokens, elements, j, save,
             _match_production_element(grammar, tokens, elements[j], lookahead, stack))

\* _match_production_step without the assignment self._lookahead = save.
_match_production_step_keeping_lookahead(grammar, tokens, elements, j, save, r) ==
    IF r.error # "" THEN r
    ELSE IF ~r.ok THEN Scan(FALSE, "", r.lookahead, r.stack)
    ELSE _match_production_loop(
             grammar, tokens, elements, j + 1, save, r.lookahead, r.stack)

\* The body of that loop once the element at position j was matched
\* with outcome r.
_match_production_step(grammar, tokens, elements, j, save, r) ==
    IF r.error # "" THEN r
    ELSE IF ~r.ok THEN Scan(FALSE, "", save, r.stack)
    ELSE _match_production_loop(
             grammar, tokens, elements, j + 1, save, r.lookahead, r.stack)

_match_production(grammar, tokens, production, lookahead, stack) ==
    _match_production_loop(
        grammar, tokens, production.elements, 1, lookahead, lookahead, stack)

\* The loop of _match_non_terminal over the alternatives from position i
\* on; save is the length of the stack on entry of _match_non_terminal.
_match_non_terminal_loop(grammar, tokens, name, i, save, lookahead, stack) ==
    IF i > Len(grammar[name]) THEN Scan(FALSE, "", lookahead, stack)
    ELSE _match_non_terminal_step(grammar, tokens, name, i, save,
             _match_production(grammar, tokens, grammar[name][i], lookahead,
                 Append(stack, ProductionId(name, i))))

\* _match_non_terminal_step without the truncation of the stack.
_match_non_terminal_step_keeping_stack(grammar, tokens, name, i, save, r) ==
    IF r.error # "" THEN r
    ELSE IF r.ok THEN r
    ELSE _match_non_terminal_loop(
             grammar, tokens, name, i + 1, save, r.lookahead, r.stack)

\* The body of that loop once the alternative at position i was matched
\* with outcome r.
_match_non_terminal_step(grammar, tokens, name, i, save, r) ==
    IF r.error # "" THEN r
    ELSE IF r.ok THEN r
    ELSE _match_non_terminal_loop(
             grammar, tokens, name, i + 1, save, r.lookahead,
             SubSeq(r.stack, 1, save))

\* _match_non_terminal with a loop that passes over the first of
\* several alternatives.
_match_non_terminal_skipping_first(grammar, tokens, non_terminal, lookahead, stack) ==
    _match_non_terminal_loop(
        grammar, tokens, non_terminal.name,
        IF Len(grammar[non_terminal.name]) >= 2 THEN 2 ELSE 1,
        Len(stack), lookahead, stack)

_match_non_terminal(grammar, tokens, non_terminal, lookahead, stack) ==
    _match_non_terminal_loop(
        grammar, tokens, non_terminal.name, 1, Len(stack), lookahead, stack)

_match_production_element(grammar, tokens, production_element, lookahead, stack) ==
    IF production_element.t = "Terminal"
    THEN _match_terminal(tokens, production_element, lookahead, stack)
    ELSE IF production_element.t = "NonTerminal"
    THEN _match_non_terminal(grammar, tokens, production_element, lookahead, stack)
    ELSE IF production_element.t = "Epsilon"
    THEN Scan(TRUE, "", lookahead, stack)
    ELSE Scan(FALSE, "TypeError", lookahead, stack)

\* _scan: match Grammar[0]; success needs the lookahead to be None.
\* _scan_result without the test that the lookahead is None.
_scan_result_ignoring_lookahead(r) ==
    IF r.error # "" THEN r
    ELSE IF ~r.ok THEN Scan(FALSE, "", r.lookahead, r.stack)
    ELSE Scan(TRUE, "", r.lookahead, r.stack)

\* The end of _scan once the start symbol was matched with outcome r.
_scan_result(r) ==
    IF r.error # "" THEN r
    ELSE IF ~r.ok \/ r.lookahead # LookaheadNone
    THEN Scan(FALSE, "", r.lookahead, r.stack)
    ELSE Scan(TRUE, "", r.lookahead, r.stack)

_scan(grammar, start, tokens, lookahead, stack) ==
    _scan_result(_match_production_element(
        grammar, tokens, NonTerminal(start), lookahead, stack))

\* ------------------------------------------------------------------
\*   Parse tree and reduction (xparse/parser/parse_tree.py)
\* ------------------------------------------------------------------

Leaf(terminal, token) == [k |-> "Leaf", terminal |-> terminal, token |-> token]

Node(production, children) == [k |-> "Node", production |-> production, children |-> children]

\* The children Node.set_from_production appends for the elements from
\* position j on: a leaf per terminal, an empty node per non-terminal.
RECURSIVE set_from_production(_, _)

\* set_from_production with a leaf appended for Epsilon too.
set_from_production_with_epsilon(elements, j) ==
    IF j > Len(elements) THEN <<>>
    ELSE IF elements[j].t = "NonTerminal"
    THEN <<Node(None, <<>>)>> \o set_from_production(elements, j + 1)
    ELSE <<Leaf(elements[j], None)>> \o set_from_production(elements, j + 1)

set_from_production(elements, j) ==
    IF j > Len(elements) THEN <<>>
    ELSE LET element == elements[j] IN
         IF element.t = "Terminal"
         THEN <<Leaf(element, None)>> \o set_from_production(elements, j + 1)
         ELSE IF element.t = "NonTerminal"
         THEN <<Node(None, <<>>)>> \o set_from_production(elements, j + 1)
         ELSE set_from_production(elements, j + 1)

\* What _build_tree leaves behind: the node built, the cursor _i into
\* the productions, and the exception raised if any.
Built(node, i, error) == [node |-> node, i |-> i, error |-> error]

RECURSIVE _build_tree(_, _, _)
RECURSIVE _build_children(_, _, _, _, _)
RECURSIVE _build_child(_, _, _, _, _)

\* The loop of _build_tree over node.children from position j on.
_build_children(grammar, productions, children, j, i) ==
    IF j > Len(children) THEN Built(children, i, "")
    ELSE IF children[j].k = "Node"
    THEN _build_child(grammar, productions, children, j,
             _build_tree(grammar, productions, i))
    ELSE _build_children(grammar, productions, children, j + 1, i)

\* The body of that loop once the child at position j was built as b.
_build_child(grammar, productions, children, j, b) ==
    IF b.error # "" THEN Built(children, b.i, b.error)
    ELSE _build_children(grammar, productions,
             [children EXCEPT ![j] = b.node], j + 1, b.i)

\* The node of production once its children were built as b.
_build_node(production, b) == Built(Node(production, b.node), b.i, b.error)

\* productions[self._i] with the 0-based cursor i.
_build_tree(grammar, productions, i) ==
    IF i >= Len(productions) THEN Built(None, i, "IndexError")
    ELSE _build_node(productions[i + 1],
             _build_children(grammar, productions,
                 set_from_production(
                     ProductionOf(grammar, productions[i + 1]).elements, 1),
                 1, i + 1))

\* The leaves of the tree in the order walk_tree visits them.
RECURSIVE _find_leaves(_)
RECURSIVE _find_leaves_in(_, _)

_find_leaves_in(children, j) ==
    IF j > Len(children) THEN <<>>
    ELSE _find_leaves(children[j]) \o _find_leaves_in(children, j + 1)

_find_leaves(element) ==
    IF element.k = "Leaf" THEN <<element>>
    ELSE _find_leaves_in(element.children, 1)

\* _add_tokens sets the token of the i-th leaf object, which the tree
\* and the list of leaves share: n counts the leaves before the element.
RECURSIVE _add_tokens(_, _, _)
RECURSIVE _add_tokens_in(_, _, _, _)

_add_tokens_in(children, j, tokens, n) ==
    IF j > Len(children) THEN <<>>
    ELSE <<_add_tokens(children[j], tokens, n)>>
         \o _add_tokens_in(children, j + 1, tokens,
                           n + Len(_find_leaves(children[j])))

_add_tokens(element, tokens, n) ==
    IF element.k = "Leaf"
    THEN IF n + 1 <= Len(tokens) THEN Leaf(element.terminal, tokens[n + 1])
         ELSE element
    ELSE Node(element.production, _add_tokens_in(element.children, 1, tokens, n))

\* The default action of a production without a Return object.
_this(args) == IF Len(args) = 1 THEN args[1] ELSE Raised("TypeError")

\* ------------------------------------------------------------------
\*   Look-up tables (xparse/regular/automata.py)
\* ------------------------------------------------------------------

EPSILON == "'e"

\* The callable default `set`, which constructs an empty set.
DefaultSet == [k |-> "callable", name |-> "set"]

\* An empty Python dict.
EmptyDict == [c \in {} |-> {}]

\* dict[item] = value
DictSet(dict, item, value) ==
    [c \in DOMAIN dict \cup {item} |-> IF c = item THEN value ELSE dict[c]]

\* Python's ord for the characters the model uses; sorted() orders
\* one-character strings by it.
ord(char) ==
    CASE char = "(" -> 40 [] char = ")" -> 41 [] char = "*" -> 42
      [] char = "+" -> 43 [] char = "?" -> 63 [] char = "\\" -> 92
      [] char = "a" -> 97 [] char = "b" -> 98 [] char = "c" -> 99
      [] char = "d" -> 100 [] char = "|" -> 124

TableRow(data, default) == [data |-> data, default |-> default]

_return_default(row) ==
    IF row.default.k = "callable" THEN {} ELSE row.default

\* dict.setdefault(item, default): as dict.get, and a missing item is stored.
dict_setdefault(dict, item, default) ==
    IF item \in DOMAIN dict
    THEN [dict |-> dict, value |-> dict[item]]
    ELSE [dict |-> [c \in DOMAIN dict \cup {item} |-> IF c = item THEN default ELSE dict[c]],
          value |-> default]

\* dict.get(item, default): the value returned, and the dict after the call.
dict_get(dict, item, default) ==
    [dict |-> dict, value |-> IF item \in DOMAIN dict THEN dict[item] ELSE default]

TableRow_getitem(row, item) == dict_get(row.data, item, _return_default(row)).value

TableRow_setitem(row, item, value) ==
    TableRow(DictSet(row.data, item, value), row.default)

TableRow_columns(row) == DOMAIN row.data

TableRow_map(row, func(_)) ==
    TableRow([c \in DOMAIN row.data |-> func(row.data[c])], row.default)

\* Table(data, default): every row is rebuilt with the table's default.
Table(data, default) ==
    [data |-> [r \in 1..Len(data) |-> TableRow(data[r].data, default)],
     default |-> default]

\* table[row_index], rows being numbered from 0.
Table_getitem(table, row_index) == table.data[row_index + 1]

Table_len(table) == Len(table.data)

Table_final(table) == Table_len(table) - 1

\* with_empty_row whose row has an epsilon-transition to state 0.
with_epsilon_row(default) == Table(<<TableRow(DictSet(EmptyDict, EPSILON, {0}), None)>>, default)

with_empty_row(default) == Table(<<TableRow(EmptyDict, None)>>, default)

Table_map(table, func(_)) ==
    Table([r \in 1..Len(table.data) |-> TableRow_map(table.data[r], func)],
          table.default)

\* table[row_index][item] = value
Table_setitem(table, row_index, item, value) ==
    [table EXCEPT !.data[row_index + 1] = TableRow_setitem(@, item, value)]

\* ------------------------------------------------------------------
\*   NFA (xparse/regular/automata.py)
\* ------------------------------------------------------------------

\* set_union(*sets) for a set of sets.
set_union(sets) == UNION sets

\* The inner function of _find_epsilon_closure.
RECURSIVE iter_search(_, _, _)
iter_search(table, states, update) ==
    IF update = {} THEN states
    ELSE iter_search(table, states \cup update,
             set_union({TableRow_getitem(Table_getitem(table, u), EPSILON) :
                           u \in update \ states}) \ (states \cup update))

\* _find_epsilon_closure that stops after the first round of the search.
_find_epsilon_closure_one_round(table, state) ==
    {state} \cup TableRow_getitem(Table_getitem(table, state), EPSILON)

_find_epsilon_closure(table, state) ==
    iter_search(table, {state}, TableRow_getitem(Table_getitem(table, state), EPSILON))

\* Nfa(data) for a Table: the table and the cache of closures, one per
\* state, kept in a sequence whose entry n + 1 belongs to state n.
Nfa(table) ==
    [k |-> "Nfa", table |-> table,
     _epsilon_closure |-> [n \in 1..Table_len(table) |-> _find_epsilon_closure(table, n - 1)]]

Nfa_len(nfa) == Table_len(nfa.table)

Nfa_final(nfa) == Nfa_len(nfa) - 1

\* sum(lengths[:n])
RECURSIVE sum_lengths(_, _)
sum_lengths(tables, n) ==
    IF n = 0 THEN 0 ELSE sum_lengths(tables, n - 1) + Table_len(tables[n])

\* The rows of the tables from position j on, one after the other.
RECURSIVE flatten_rows(_, _)
flatten_rows(tables, j) ==
    IF j > Len(tables) THEN <<>>
    ELSE tables[j].data \o flatten_rows(tables, j + 1)

\* The shift with every state moved one further than the offset.
shifted_one_further(table, i) == Table_map(table, LAMBDA x : {elem + i + 1 : elem \in x})

\* table.map(lambda x: {elem + i for elem in x})
shifted(table, i) == Table_map(table, LAMBDA x : {elem + i : elem \in x})

\* _concat_tables once the offsets are calculated.
_concat_shifted(tables, offsets) ==
    [table |-> Table(flatten_rows([j \in 1..Len(tables) |-> shifted(tables[j], offsets[j])], 1),
                     tables[1].default),
     offsets |-> offsets]

_concat_tables(tables) ==
    _concat_shifted(tables, [j \in 1..Len(tables) |-> sum_lengths(tables, j - 1)])

\* epsilon_closure(states) for a set of states.
epsilon_closure(nfa, states) ==
    set_union({nfa._epsilon_closure[state + 1] : state \in states})

get_input_characters(nfa, states) ==
    set_union({TableRow_columns(Table_getitem(nfa.table, state)) : state \in states}) \ {EPSILON}

Nfa_is_final(nfa, states) == Nfa_final(nfa) \in states

transition(nfa, states, char) ==
    epsilon_closure(nfa,
        set_union({TableRow_getitem(Table_getitem(nfa.table, state), char) :
                      state \in epsilon_closure(nfa, states)}))

\* The loop of Nfa.match over the characters from position i on.
RECURSIVE Nfa_match_loop(_, _, _, _)
RECURSIVE Nfa_match_step(_, _, _, _)
Nfa_match_loop(nfa, string, i, states) ==
    IF i > Len(string) THEN Nfa_is_final(nfa, states)
    ELSE Nfa_match_step(nfa, string, i, transition(nfa, states, string[i]))

\* The body of that loop once the transition on character i gave states.
Nfa_match_step(nfa, string, i, states) ==
    IF states = {} THEN FALSE ELSE Nfa_match_loop(nfa, string, i + 1, states)

Nfa_match(nfa, string) == Nfa_match_loop(nfa, string, 1, {0})

Nfa_epsilon == Nfa(Table(<<TableRow(DictSet(EmptyDict, EPSILON, {1}), None), TableRow(EmptyDict, None)>>, DefaultSet))

\* char with the transition on the character leading past the final state.
Nfa_char_past_final(char) == Nfa(Table(<<TableRow(DictSet(EmptyDict, char, {2}), None), TableRow(EmptyDict, None)>>, DefaultSet))

Nfa_char(char) == Nfa(Table(<<TableRow(DictSet(EmptyDict, char, {1}), None), TableRow(EmptyDict, None)>>, DefaultSet))

\* for offset in offsets[from:]: table[offset - 1][EPSILON] = {offset}
RECURSIVE link_next(_, _, _)
link_next(table, offsets, from) ==
    IF from > Len(offsets) THEN table
    ELSE link_next(
             Table_setitem(table, offsets[from] - 1, EPSILON, {offsets[from]}),
             offsets, from + 1)

\* concat once the tables are concatenated as c.
Nfa_concat_link(c) == Nfa(link_next(c.table, c.offsets, 2))

Nfa_concat(nfas) ==
    Nfa_concat_link(_concat_tables([j \in 1..Len(nfas) |-> nfas[j].table]))

\* for offset in offsets[from:]: table[offset - 1][EPSILON] = {table.final}
RECURSIVE link_final(_, _, _)
link_final(table, offsets, from) ==
    IF from > Len(offsets) THEN table
    ELSE link_final(
             Table_setitem(table, offsets[from] - 1, EPSILON, {Table_final(table)}),
             offsets, from + 1)

\* union without the epsilon-transitions of row 0.
Nfa_union_link_without_initial(c) == Nfa(link_final(c.table, c.offsets, 3))

\* union once the tables are concatenated as c.
Nfa_union_link(c) ==
    Nfa(link_final(
            Table_setitem(c.table, 0, EPSILON,
                {c.offsets[j] : j \in 2..(Len(c.offsets) - 1)}),
            c.offsets, 3))

Nfa_union(nfas) ==
    Nfa_union_link(_concat_tables(
        <<with_empty_row(DefaultSet)>>
        \o [j \in 1..Len(nfas) |-> nfas[j].table]
        \o <<with_empty_row(DefaultSet)>>))

\* star with the last row of the operand linked to the final state only.
Nfa_star_link_without_loop(table) ==
    Nfa(Table_setitem(
            Table_setitem(table, 0, EPSILON, {1, Table_final(table)}),
            Table_final(table) - 1, EPSILON, {Table_final(table)}))

\* star once the tables are concatenated as table.
Nfa_star_link(table) ==
    Nfa(Table_setitem(
            Table_setitem(table, 0, EPSILON, {1, Table_final(table)}),
            Table_final(table) - 1, EPSILON, {0, Table_final(table)}))

Nfa_star(nfa) ==
    Nfa_star_link(_concat_tables(
        <<with_empty_row(DefaultSet), nfa.table, with_empty_row(DefaultSet)>>).table)

\* ------------------------------------------------------------------
\*   DFA (xparse/regular/automata.py)
\* ------------------------------------------------------------------

\* epsilon_closure(state) for one state given as an integer.
epsilon_closure_int(nfa, state) == nfa._epsilon_closure[state + 1]

\* The first character of sorted(chars).
first_sorted(chars) == CHOOSE c \in chars : \A d \in chars : ord(c) <= ord(d)

\* The loop over sorted(input_chars) in _translate_nfa: w holds data,
\* finals, registered_states and stack.
RECURSIVE translate_chars(_, _, _, _, _)

\* The loop over the characters that registers a new set of NFA states
\* and does not append it to the stack.
RECURSIVE translate_chars_without_push(_, _, _, _, _)
translate_chars_without_push(nfa, nfa_state, dfa_state, chars, w) ==
    IF chars = {} THEN w
    ELSE LET char == first_sorted(chars)
             new_nfa_state == transition(nfa, nfa_state, char)
             is_new == new_nfa_state \notin DOMAIN w.registered_states
             new_dfa_state == IF is_new THEN Cardinality(DOMAIN w.registered_states)
                              ELSE w.registered_states[new_nfa_state]
             registered == IF is_new
                           THEN DictSet(w.registered_states, new_nfa_state, new_dfa_state)
                           ELSE w.registered_states
             data == DictSet(w.data, dfa_state, DictSet(w.data[dfa_state], char, new_dfa_state))
         IN  translate_chars_without_push(nfa, nfa_state, dfa_state, chars \ {char},
                 [data |-> data, finals |-> w.finals,
                  registered_states |-> registered, stack |-> w.stack])

translate_chars(nfa, nfa_state, dfa_state, chars, w) ==
    IF chars = {} THEN w
    ELSE LET char == first_sorted(chars)
             new_nfa_state == transition(nfa, nfa_state, char)
             is_new == new_nfa_state \notin DOMAIN w.registered_states
             new_dfa_state == IF is_new THEN Cardinality(DOMAIN w.registered_states)
                              ELSE w.registered_states[new_nfa_state]
             registered == IF is_new
                           THEN DictSet(w.registered_states, new_nfa_state, new_dfa_state)
                           ELSE w.registered_states
             stack == IF is_new THEN Append(w.stack, new_nfa_state) ELSE w.stack
             data == DictSet(w.data, dfa_state, DictSet(w.data[dfa_state], char, new_dfa_state))
         IN  translate_chars(nfa, nfa_state, dfa_state, chars \ {char},
                 [data |-> data, finals |-> w.finals,
                  registered_states |-> registered, stack |-> stack])

\* The while loop of _translate_nfa.
RECURSIVE translate_loop(_, _)

\* The while loop without the test nfa.is_final(nfa_state).
translate_loop_without_finals(nfa, w) ==
    IF w.stack = <<>> THEN w
    ELSE translate_loop(nfa,
             translate_chars(nfa, w.stack[Len(w.stack)],
                 w.registered_states[w.stack[Len(w.stack)]],
                 get_input_characters(nfa, w.stack[Len(w.stack)]),
                 [data |-> IF w.registered_states[w.stack[Len(w.stack)]] \notin DOMAIN w.data
                           THEN DictSet(w.data, w.registered_states[w.stack[Len(w.stack)]], EmptyDict)
                           ELSE w.data,
                  finals |-> w.finals,
                  registered_states |-> w.registered_states,
                  stack |-> SubSeq(w.stack, 1, Len(w.stack) - 1)]))

translate_loop(nfa, w) ==
    IF w.stack = <<>> THEN w
    ELSE LET nfa_state == w.stack[Len(w.stack)]
             popped == SubSeq(w.stack, 1, Len(w.stack) - 1)
             dfa_state == w.registered_states[nfa_state]
             data == IF dfa_state \notin DOMAIN w.data
                     THEN DictSet(w.data, dfa_state, EmptyDict) ELSE w.data
             w1 == translate_chars(nfa, nfa_state, dfa_state,
                       get_input_characters(nfa, nfa_state),
                       [data |-> data, finals |-> w.finals,
                        registered_states |-> w.registered_states, stack |-> popped])
             finals == IF Nfa_is_final(nfa, nfa_state)
                       THEN w1.finals \cup {w1.registered_states[nfa_state]}
                       ELSE w1.finals
         IN  translate_loop(nfa, [w1 EXCEPT !.finals = finals])

\* One pass of the while loop of _translate_nfa, the stack not being
\* empty.
translate_step(nfa, w) ==
    LET nfa_state == w.stack[Len(w.stack)]
        popped == SubSeq(w.stack, 1, Len(w.stack) - 1)
        dfa_state == w.registered_states[nfa_state]
        data == IF dfa_state \notin DOMAIN w.data
                THEN DictSet(w.data, dfa_state, EmptyDict) ELSE w.data
        w1 == translate_chars(nfa, nfa_state, dfa_state,
                  get_input_characters(nfa, nfa_state),
                  [data |-> data, finals |-> w.finals,
                   registered_states |-> w.registered_states, stack |-> popped])
        finals == IF Nfa_is_final(nfa, nfa_state)
                  THEN w1.finals \cup {w1.registered_states[nfa_state]}
                  ELSE w1.finals
    IN  [w1 EXCEPT !.finals = finals]

\* data, finals, registered_states and stack before the while loop.
translate_start(nfa) ==
    [data |-> DictSet(EmptyDict, 0, EmptyDict), finals |-> {},
     registered_states |-> DictSet(EmptyDict, epsilon_closure_int(nfa, 0), 0),
     stack |-> <<epsilon_closure_int(nfa, 0)>>]

_translate_nfa(nfa) ==
    LET initial_state == epsilon_closure_int(nfa, 0) IN
    translate_loop(nfa,
        [data |-> DictSet(EmptyDict, 0, EmptyDict), finals |-> {},
         registered_states |-> DictSet(EmptyDict, initial_state, 0),
         stack |-> <<initial_state>>])

\* Dfa(nfa); on None the first attribute access raises.
Dfa(nfa) ==
    IF nfa.k # "Nfa" THEN Raised("AttributeError")
    ELSE LET w == _translate_nfa(nfa) IN
         [k |-> "Dfa", table |-> w.data, finals |-> w.finals]

Dfa_is_final(dfa, state) == state \in dfa.finals

\* The loop of Dfa.match over the characters from position i on; a
\* KeyError of the look-up ends the match with False.
RECURSIVE Dfa_match_loop(_, _, _, _)
Dfa_match_loop(dfa, string, i, state) ==
    IF i > Len(string) THEN Dfa_is_final(dfa, state)
    ELSE IF state \notin DOMAIN dfa.table \/ string[i] \notin DOMAIN dfa.table[state]
    THEN FALSE
    ELSE Dfa_match_loop(dfa, string, i + 1, dfa.table[state][string[i]])

Dfa_match(dfa, string) == Dfa_match_loop(dfa, string, 1, 0)

\* ------------------------------------------------------------------
\*   Reduction to a return value (xparse/parser/parse_tree.py)
\* ------------------------------------------------------------------

\* The actions of examples/operations.py.
build_op(name, arguments) == Dict(name, arguments)

\* build_args with the two results the wrong way round.
build_args_nesting(first, rest) ==
    IF rest.k = "list" THEN List(<<first, rest>>)
    ELSE List(<<first>> \o <<rest>>)

build_args(first, rest) ==
    IF rest.k = "list" THEN List(<<first>> \o rest.items)
    ELSE List(<<first, rest>>)

\* action(*args) for the function a Return object names.  The functions
\* of the regex grammar are computed; any other function is left
\* uninterpreted.  A call with the wrong number of arguments raises.
Apply(func, args) ==
    CASE func = "Nfa.char" ->
           IF Len(args) = 1 THEN Nfa_char(args[1].s) ELSE Raised("TypeError")
      [] func = "Nfa.star" ->
           IF Len(args) = 1 THEN Nfa_star(args[1]) ELSE Raised("TypeError")
      [] func = "Nfa.concat" -> Nfa_concat(args)
      [] func = "Nfa.union" -> Nfa_union(args)
      [] func = "optional" ->
           IF Len(args) = 1 THEN Nfa_union(<<args[1], Nfa_epsilon>>)
           ELSE Raised("TypeError")
      [] func = "plus" ->
           IF Len(args) = 1 THEN Nfa_concat(<<args[1], Nfa_star(args[1])>>)
           ELSE Raised("TypeError")
      [] func = "identity" ->
           IF Len(args) = 1 THEN args[1] ELSE Raised("TypeError")
      [] func = "int" ->
           IF Len(args) # 1 THEN Raised("TypeError")
           ELSE IF args[1].k = "str" THEN int(args[1].s)
           ELSE IF args[1].k = "int" THEN args[1]
           ELSE Raised("TypeError")
      [] func = "add" ->
           IF Len(args) = 2 /\ args[1].k = "int" /\ args[2].k = "int"
           THEN IntValue(args[1].n + args[2].n) ELSE Raised("TypeError")
      [] func = "sub" ->
           IF Len(args) = 2 /\ args[1].k = "int" /\ args[2].k = "int"
           THEN IntValue(args[1].n - args[2].n) ELSE Raised("TypeError")
      [] func = "build_op" ->
           IF Len(args) = 2 THEN build_op(args[1], args[2]) ELSE Raised("TypeError")
      [] func = "build_args" ->
           IF Len(args) = 2 THEN build_args(args[1], args[2]) ELSE Raised("TypeError")
      [] OTHER -> App(func, args)

RECURSIVE _return_value(_, _)

\* _return_value that passes every child's value to the action,
\* whatever the args of the Return object.
_return_value_all_args(grammar, node) ==
    IF node.k = "Leaf"
    THEN IF node.token = None THEN Raised("AttributeError")
         ELSE Str(node.token.lexeme)
    ELSE IF node.production = None THEN Raised("AttributeError")
    ELSE LET return_value == ProductionOf(grammar, node.production).return_value
             args == [j \in 1..Len(node.children) |->
                         _return_value(grammar, node.children[j])]
             raising == {j \in 1..Len(args) : args[j].k = "raised"}
         IN  IF raising # {}
             THEN args[CHOOSE j \in raising : \A h \in raising : j <= h]
             ELSE IF return_value = None THEN _this(args)
             ELSE Apply(return_value.func, args)

_return_value(grammar, node) ==
    IF node.k = "Leaf"
    THEN IF node.token = None THEN Raised("AttributeError")
         ELSE Str(node.token.lexeme)
    ELSE IF node.production = None THEN Raised("AttributeError")
    ELSE LET return_value == ProductionOf(grammar, node.production).return_value
             args == [j \in 1..Len(node.children) |->
                         _return_value(grammar, node.children[j])]
             raising == {j \in 1..Len(args) : args[j].k = "raised"}
         IN  IF raising # {}
             THEN args[CHOOSE j \in raising : \A h \in raising : j <= h]
             ELSE IF return_value = None THEN _this(args)
             ELSE IF ~return_value.has_args THEN Apply(return_value.func, args)
             ELSE IF \E i \in 1..Len(return_value.args) :
                        return_value.args[i] >= Len(args)
             THEN Raised("IndexError")
             ELSE Apply(return_value.func,
                      [i \in 1..Len(return_value.args) |->
                          args[return_value.args[i] + 1]])

\* ParseTree(tokens, productions): the tree, its leaves and its return
\* value, or the exception the constructor raised.
ParseTree_valued(root, value) ==
    IF value.k = "raised" THEN value
    ELSE [k |-> "ParseTree", root |-> root, leaves |-> _find_leaves(root),
          return_value |-> value]

ParseTree_rooted(grammar, root) ==
    ParseTree_valued(root,
        IF ProductionOf(grammar, root.production).return_value # None
        THEN _return_value(grammar, root)
        ELSE None)

ParseTree_built(grammar, tokens, b) ==
    IF b.error # "" THEN Raised(b.error)
    ELSE ParseTree_rooted(grammar, _add_tokens(b.node, tokens, 0))

ParseTree(grammar, tokens, productions) ==
    ParseTree_built(grammar, tokens, _build_tree(grammar, productions, 0))

\* ------------------------------------------------------------------
\*   RecursiveDescentParser.parse (xparse/parser/recursive_descent.py)
\* ------------------------------------------------------------------

\* Grammar(*non_terminals) with the alternatives bound to each name.
Grammar(non_terminals, productions) ==
    [non_terminals |-> non_terminals, productions |-> productions]

\* The mutable attributes of a parser after __init__.
NewParser ==
    [parse_tree |-> None, return_value |-> None,
     _tokens |-> <<>>, _lookahead |-> LookaheadNone, _stack |-> <<>>]

\* _reset without the two assignments of None.
_reset_keeping_results(self, tokens) ==
    [self EXCEPT !._tokens = tokens, !._lookahead = 0, !._stack = <<>>]

_reset(self, tokens) ==
    [self EXCEPT !._tokens = tokens, !._lookahead = 0, !._stack = <<>>,
                 !.parse_tree = None, !.return_value = None]

\* parse(string): the attributes it leaves and what it returns ("True",
\* "False") or raises (the name of the exception).
\* The end of parse after a successful scan: self.parse_tree and
\* self.return_value are set unless the constructor of the tree raised.
parse_tree_set(self, tree) ==
    IF tree.k = "raised" THEN [self |-> self, result |-> tree.name]
    ELSE [self |-> [self EXCEPT !.parse_tree = tree,
                                !.return_value = tree.return_value],
          result |-> "True"]

\* parse after _scan left the scan state self with outcome r.
parse_scanned(grammar, self, r) ==
    IF r.error # "" THEN [self |-> self, result |-> r.error]
    ELSE IF ~r.ok THEN [self |-> self, result |-> "False"]
    ELSE parse_tree_set(self,
             ParseTree(grammar.productions, self._tokens, self._stack))

\* _scan on the parser self, whose scan state it updates.
scanned(self, r) == [self EXCEPT !._lookahead = r.lookahead, !._stack = r.stack]

parse_scan(grammar, self, r) == parse_scanned(grammar, scanned(self, r), r)

\* parse after _reset.
parse_reset(grammar, self) ==
    parse_scan(grammar, self,
        _scan(grammar.productions, grammar.non_terminals[1],
              self._tokens, self._lookahead, self._stack))

\* parse resetting the scan state only, not parse_tree and return_value.
parse_lexed_keeping_results(grammar, self, lexed) ==
    IF lexed.error # "" THEN [self |-> self, result |-> lexed.error]
    ELSE parse_reset(grammar,
             [self EXCEPT !._tokens = lexed.tokens, !._lookahead = 0, !._stack = <<>>])

\* parse after the lexer returned lexed; an exception of the lexer
\* leaves the parser as it was.
parse_lexed(grammar, self, lexed) ==
    IF lexed.error # "" THEN [self |-> self, result |-> lexed.error]
    ELSE parse_reset(grammar, _reset(self, lexed.tokens))

parse(grammar, lexer, self, string) ==
    parse_lexed(grammar, self, tokenize(lexer, string))

\* ------------------------------------------------------------------
\*   Regular expressions (xparse/regular/regex.py)
\* ------------------------------------------------------------------

union == NonTerminal("UNION")

concat == NonTerminal("CONCAT")

star == NonTerminal("STAR")

item == NonTerminal("ITEM")

\* The alternatives bound to the four non-terminals; the lambdas are
\* named optional ('?'), plus ('+') and identity (parentheses).
union_alternatives ==
    << Production(<<concat, Terminal("|"), union>>, ReturnArgs("Nfa.union", <<0, 2>>)),
       Production(<<concat>>, None) >>

concat_alternatives ==
    << Production(<<star, concat>>, Return("Nfa.concat")),
       Production(<<star>>, None) >>

star_alternatives ==
    << Production(<<item, Terminal("*")>>, ReturnArgs("Nfa.star", <<0>>)),
       Production(<<item, Terminal("?")>>, ReturnArgs("optional", <<0>>)),
       Production(<<item, Terminal("+")>>, ReturnArgs("plus", <<0>>)),
       Production(<<item>>, None) >>

item_alternatives ==
    << Production(<<Terminal("("), union, Terminal(")")>>, ReturnArgs("identity", <<1>>)),
       Production(<<Terminal("char")>>, Return("Nfa.char")) >>

regex_grammar ==
    Grammar(<<"UNION", "CONCAT", "STAR", "ITEM">>,
            [UNION |-> union_alternatives, CONCAT |-> concat_alternatives,
             STAR |-> star_alternatives, ITEM |-> item_alternatives])

regex_lexer == CharacterStream({}, {"(", ")", "*", "|", "?", "+"}, "\\", "char")

\* compile once the module's parser returned or raised out: Dfa of the
\* parser's return_value, whatever parse returned.
compile_parsed(out) ==
    [self |-> out.self, result |-> out.result,
     automaton |-> IF out.result \in {"True", "False"}
                   THEN Dfa(out.self.return_value)
                   ELSE Raised(out.result)]

\* compile(pattern) on the module's parser self: the parser it leaves
\* and the DFA it returns, or the exception raised.
compile(self, regex) == compile_parsed(parse(regex_grammar, regex_lexer, self, regex))

\* ------------------------------------------------------------------
\*   Prefix arithmetic (examples/prefix.py)
\* ------------------------------------------------------------------

stmt == NonTerminal("stmt")

\* The alternatives bound to stmt; the lambdas are named add and sub.
stmt_alternatives ==
    << Production(<<Terminal("+"), stmt, stmt>>, ReturnArgs("add", <<1, 2>>)),
       Production(<<Terminal("-"), stmt, stmt>>, ReturnArgs("sub", <<1, 2>>)),
       Production(<<Terminal("digit")>>, Return("int")) >>

prefix_grammar == Grammar(<<"stmt">>, [stmt |-> stmt_alternatives])

prefix_lexer ==
    CharacterStream({"+", "-", "0", "1", "2", "3", "4", "5", "6", "7", "8", "9"},
                    {"+", "-"}, "\\", "digit")

\* ------------------------------------------------------------------
\*   Nested operations (examples/operations.py)
\* ------------------------------------------------------------------

\* The alternatives bound to stmt, args, item, digit and var.
operations_stmt ==
    << Production(<<Terminal("a"), Terminal("("), NonTerminal("args"), Terminal(")")>>,
                  ReturnArgs("build_op", <<0, 2>>)),
       Production(<<Terminal("o"), Terminal("("), NonTerminal("args"), Terminal(")")>>,
                  ReturnArgs("build_op", <<0, 2>>)),
       Production(<<Terminal("e"), Terminal("("), NonTerminal("args"), Terminal(")")>>,
                  ReturnArgs("build_op", <<0, 2>>)) >>

operations_args ==
    << Production(<<NonTerminal("stmt"), Terminal(","), NonTerminal("args")>>,
                  ReturnArgs("build_args", <<0, 2>>)),
       Production(<<NonTerminal("stmt")>>, None),
       Production(<<NonTerminal("item"), Terminal(","), NonTerminal("args")>>,
                  ReturnArgs("build_args", <<0, 2>>)),
       Production(<<NonTerminal("item")>>, None) >>

operations_item ==
    << Production(<<NonTerminal("var")>>, None),
       Production(<<NonTerminal("digit")>>, None) >>

operations_digit ==
    << Production(<<Terminal("0")>>, None), Production(<<Terminal("1")>>, None) >>

operations_var ==
    << Production(<<Terminal("x")>>, None), Production(<<Terminal("y")>>, None),
       Production(<<Terminal("z")>>, None) >>

operations_grammar ==
    Grammar(<<"stmt", "args", "item", "digit", "var">>,
            [stmt |-> operations_stmt, args |-> operations_args,
             item |-> operations_item, digit |-> operations_digit,
             var |-> operations_var])

operations_lexer ==
    CharacterStream({}, {"a", "o", "e", ",", "x", "y", "z", "0", "1", "(", ")"}, "\\", "char")

\* ------------------------------------------------------------------
\*   Grammars and inputs the parser is run on
\* ------------------------------------------------------------------

\* All strings over chars of length at most n.
Strings(chars, n) == UNION {[1..m -> chars] : m \in 0..n}

\* The lexer of the enumerated grammars: a and b are special characters,
\* so that a token's category is its character.
PoolLexer == CharacterStream({}, {"a", "b"}, "\\", "char")

PoolInputs == Strings({"a", "b"}, MaxLen)

\* The productions the alternatives of the start symbol S are drawn from.
PoolS ==
    << Production(<<NonTerminal("X")>>, None),
       Production(<<NonTerminal("X"), Terminal("b")>>, ReturnArgs("g", <<0>>)),
       Production(<<Terminal("a"), NonTerminal("S")>>, Return("h")) >>

\* The productions the alternatives of X are drawn from.
PoolX ==
    << Production(<<Terminal("a")>>, None),
       Production(<<Terminal("a"), Terminal("a")>>, Return("f")),
       Production(<<Epsilon>>, None) >>

\* The lists of one to MaxAlts different productions of a pool, in
\* every order.
Alternatives(pool) ==
    LET picks == UNION {[1..n -> 1..Len(pool)] : n \in 1..MaxAlts}
        distinct == {q \in picks : \A i, j \in 1..Len(q) : i # j => q[i] # q[j]}
    IN  {[i \in 1..Len(q) |-> pool[q[i]]] : q \in distinct}

\* The non-terminals that derive the empty string, found in n rounds.
RECURSIVE Nullable(_, _)
Nullable(productions, n) ==
    IF n = 0 THEN {}
    ELSE LET known == Nullable(productions, n - 1) IN
         {name \in DOMAIN productions :
             \E i \in 1..Len(productions[name]) :
                 \A j \in 1..Len(productions[name][i].elements) :
                     LET e == productions[name][i].elements[j] IN
                     e.t = "Epsilon" \/ (e.t = "NonTerminal" /\ e.name \in known)}

\* The non-terminals that a match of name can reach before any token is
\* consumed, in one step.
LeftCorners(productions, name) ==
    LET nullable == Nullable(productions, Cardinality(DOMAIN productions)) IN
    {m \in DOMAIN productions :
        \E i \in 1..Len(productions[name]) :
            \E j \in 1..Len(productions[name][i].elements) :
                /\ productions[name][i].elements[j] = NonTerminal(m)
                /\ \A h \in 1..(j - 1) :
                       LET e == productions[name][i].elements[h] IN
                       e.t = "Epsilon" \/ (e.t = "NonTerminal" /\ e.name \in nullable)}

RECURSIVE LeftReach(_, _, _)
LeftReach(productions, names, n) ==
    IF n = 0 THEN names
    ELSE LeftReach(productions,
             names \cup UNION {LeftCorners(productions, m) : m \in names}, n - 1)

\* No non-terminal reaches itself as the first element matched without
\* a token consumed.
NoLeftRecursion(productions) ==
    \A name \in DOMAIN productions :
        name \notin LeftReach(productions, LeftCorners(productions, name),
                              Cardinality(DOMAIN productions))

PoolGrammars ==
    {Grammar(<<"S", "X">>, [S |-> s, X |-> x]) :
        s \in Alternatives(PoolS), x \in Alternatives(PoolX)}

\* ------------------------------------------------------------------
\*   Grammar construction (xparse/grammar.py): the operators +, |, >>, +=
\* ------------------------------------------------------------------

\* Production objects are mutable and shared by reference, so they live
\* in a heap, a sequence of objects; a Production value is a reference
\* into it.  A ProductionAlternatives holds a tuple of such references.

\* The class of a value.
TypeOf(v) == IF "t" \in DOMAIN v THEN v.t ELSE v.k

\* Production.__init__: the object it creates.
Production_init(elements, return_value) ==
    [head |-> None, elements |-> elements, return_value |-> return_value]

ProductionRef(id) == [t |-> "Production", id |-> id]

ProductionAlternatives(productions) ==
    [t |-> "ProductionAlternatives", productions |-> productions]

\* What an operator call leaves: the heap, and the value returned or the
\* exception raised.
Returned(heap, value) == [heap |-> heap, value |-> value, error |-> ""]

TypeError(heap) == [heap |-> heap, value |-> None, error |-> "TypeError"]

\* Production(*elements, return_value=...) as a new object of the heap.
NewProduction(heap, elements, return_value) ==
    Append(heap, Production_init(elements, return_value))

Terminal_add(heap, self, other) ==
    Returned(NewProduction(heap, <<self, other>>, None), ProductionRef(Len(heap) + 1))

Terminal_or(heap, self, other) ==
    IF TypeOf(other) \in {"Terminal", "NonTerminal", "Epsilon"}
    THEN Returned(NewProduction(NewProduction(heap, <<self>>, None), <<other>>, None),
                  ProductionAlternatives(<<Len(heap) + 1, Len(heap) + 2>>))
    ELSE TypeError(heap)

Terminal_rshift(heap, self, other) ==
    IF TypeOf(other) = "Return"
    THEN Returned(NewProduction(heap, <<self>>, other), ProductionRef(Len(heap) + 1))
    ELSE TypeError(heap)

NonTerminal_add(heap, self, other) ==
    Returned(NewProduction(heap, <<self, other>>, None), ProductionRef(Len(heap) + 1))

NonTerminal_or(heap, self, other) ==
    IF TypeOf(other) \in {"Terminal", "NonTerminal", "Epsilon"}
    THEN Returned(NewProduction(NewProduction(heap, <<self>>, None), <<other>>, None),
                  ProductionAlternatives(<<Len(heap) + 1, Len(heap) + 2>>))
    ELSE IF TypeOf(other) = "Production"
    THEN Returned(NewProduction(heap, <<self>>, None),
                  ProductionAlternatives(<<Len(heap) + 1, other.id>>))
    ELSE TypeError(heap)

NonTerminal_rshift(heap, self, other) ==
    IF TypeOf(other) = "Return"
    THEN Returned(NewProduction(heap, <<self>>, other), ProductionRef(Len(heap) + 1))
    ELSE TypeError(heap)

\* production.head = self for every production of the alternatives.
_set_head(heap, self, productions) ==
    [i \in 1..Len(heap) |->
        IF \E j \in 1..Len(productions) : productions[j] = i
        THEN [heap[i] EXCEPT !.head = self]
        ELSE heap[i]]

\* NonTerminal.__iadd__: bound maps the name of each non-terminal to the
\* tuple of its productions attribute.
NonTerminal_iadd(heap, bound, self, other) ==
    IF TypeOf(other) \in {"Terminal", "NonTerminal", "Epsilon"}
    THEN [heap |-> _set_head(NewProduction(heap, <<other>>, None), self, <<Len(heap) + 1>>),
          bound |-> [bound EXCEPT ![self.name] = <<Len(heap) + 1>>],
          error |-> ""]
    ELSE IF TypeOf(other) = "Production"
    THEN [heap |-> _set_head(heap, self, <<other.id>>),
          bound |-> [bound EXCEPT ![self.name] = <<other.id>>],
          error |-> ""]
    ELSE IF TypeOf(other) = "ProductionAlternatives"
    THEN [heap |-> _set_head(heap, self, other.productions),
          bound |-> [bound EXCEPT ![self.name] = other.productions],
          error |-> ""]
    ELSE [heap |-> heap, bound |-> bound, error |-> "TypeError"]

Production_add(heap, self, element) ==
    IF TypeOf(element) \in {"Terminal", "NonTerminal"}
    THEN Returned(NewProduction(heap, Append(heap[self.id].elements, element), None),
                  ProductionRef(Len(heap) + 1))
    ELSE TypeError(heap)

Production_or(heap, self, other) ==
    IF TypeOf(other) \in {"Terminal", "NonTerminal"}
    THEN Returned(NewProduction(heap, <<other>>, None),
                  ProductionAlternatives(<<self.id, Len(heap) + 1>>))
    ELSE IF TypeOf(other) = "Production"
    THEN Returned(heap, ProductionAlternatives(<<self.id, other.id>>))
    ELSE TypeError(heap)

\* Production.__rshift__ storing whatever it is handed.
Production_rshift_unchecked(heap, self, other) ==
    Returned([heap EXCEPT ![self.id].return_value = other], self)

Production_rshift(heap, self, other) ==
    IF TypeOf(other) = "Return"
    THEN Returned([heap EXCEPT ![self.id].return_value = other], self)
    ELSE TypeError(heap)

ProductionAlternatives_or(heap, self, other) ==
    IF TypeOf(other) \in {"Terminal", "NonTerminal", "Epsilon"}
    THEN Returned(NewProduction(heap, <<other>>, None),
                  ProductionAlternatives(Append(self.productions, Len(heap) + 1)))
    ELSE IF TypeOf(other) = "Production"
    THEN Returned(heap, ProductionAlternatives(Append(self.productions, other.id)))
    ELSE TypeError(heap)

\* left + right, left | right and left >> right: Python calls the method
\* of the class of left, and raises TypeError when the class has none
\* (no class of the module defines a reflected operator).
add(heap, left, right) ==
    CASE TypeOf(left) = "Terminal" -> Terminal_add(heap, left, right)
      [] TypeOf(left) = "NonTerminal" -> NonTerminal_add(heap, left, right)
      [] TypeOf(left) = "Production" -> Production_add(heap, left, right)
      [] OTHER -> TypeError(heap)

or(heap, left, right) ==
    CASE TypeOf(left) = "Terminal" -> Terminal_or(heap, left, right)
      [] TypeOf(left) = "NonTerminal" -> NonTerminal_or(heap, left, right)
      [] TypeOf(left) = "Production" -> Production_or(heap, left, right)
      [] TypeOf(left) = "ProductionAlternatives" -> ProductionAlternatives_or(heap, left, right)
      [] OTHER -> TypeError(heap)

rshift(heap, left, right) ==
    CASE TypeOf(left) = "Terminal" -> Terminal_rshift(heap, left, right)
      [] TypeOf(left) = "NonTerminal" -> NonTerminal_rshift(heap, left, right)
      [] TypeOf(left) = "Production" -> Production_rshift(heap, left, right)
      [] OTHER -> TypeError(heap)

\* ------------------------------------------------------------------
\*   The parser as a state machine
\* ------------------------------------------------------------------

VARIABLES grammar, parse_tree, return_value, _tokens, _lookahead, _stack, result, prev_result

\* The NFAs under construction (the operands of the next combinator, the
\* last one on top), and the latest match: its string and what Nfa.match
\* and Dfa.match returned ("" before the match).
VARIABLES operands, string, nfa_match, dfa_match

\* The latest pattern handed to compile and what compile returned or
\* raised (None before the call).
VARIABLES pattern, automaton

\* The lexer (of the parser, where there is one) and what the latest
\* call of its tokenize returned or raised (None before the call).
VARIABLES lexer, lexed

\* Grammar construction: the heap of Production objects, the productions
\* attribute of each non-terminal, the values the program holds, and the
\* last operator applied with its operands and the exception it raised.
VARIABLES heap, bound, terms, operation, thrown

\* Tables: the TableRow and Table objects created and the objects their
\* defaults constructed, and the comparison with ==, the lookup or the
\* call of a constructor made last, if it was the last operation.
VARIABLES objects, compared, looked, made

\* Callers running at the same time: the objects they share, and for
\* each caller the call it is in and how far that call has got.
VARIABLES shared, callers

\* The match function called last on the parser outside parse, with its
\* argument, if that was the last operation.
VARIABLES matched

parserVars == <<grammar, parse_tree, return_value, _tokens, _lookahead, _stack, result, prev_result>>

nfaVars == <<operands, string, nfa_match, dfa_match>>

regexVars == <<pattern, automaton>>

lexerVars == <<lexer, lexed>>

constructionVars == <<heap, bound, terms, operation, thrown>>

tableVars == <<objects, compared, looked, made>>

concurrentVars == <<shared, callers>>

matchVars == <<matched>>

vars == <<parserVars, nfaVars, regexVars, lexerVars, constructionVars, tableVars, concurrentVars, matchVars>>

\* The parser object.
Self ==
    [parse_tree |-> parse_tree, return_value |-> return_value,
     _tokens |-> _tokens, _lookahead |-> _lookahead, _stack |-> _stack]

\* RecursiveDescentParser(grammar, lexer); result and prev_result are
\* what the latest call of parse and the one before it returned or
\* raised ("" before the call).
InitParser(g) ==
    /\ grammar = g
    /\ parse_tree = NewParser.parse_tree
    /\ return_value = NewParser.return_value
    /\ _tokens = NewParser._tokens
    /\ _lookahead = NewParser._lookahead
    /\ _stack = NewParser._stack
    /\ result = ""
    /\ prev_result = ""

\* No NFA is under construction and nothing was matched.
InitNfa == operands = <<>> /\ string = <<>> /\ nfa_match = "" /\ dfa_match = ""

\* Nothing was compiled.
InitRegex == pattern = <<>> /\ automaton = None

\* CharacterStream(...) bound to the name lexer; tokenize not yet called.
InitLexer(l) == lexer = l /\ lexed = None

\* Nothing shared and no caller.
InitConcurrent == shared = None /\ callers = <<>>

\* No match function called.
NoMatch == [function |-> "", argument |-> None]

InitMatching == matched = NoMatch

\* No comparison made and no column looked up.
NoComparison == [this |-> 0, other |-> 0, equal |-> FALSE]

NoLookup == [owner |-> 0, row_index |-> -1, item |-> "", value |-> None, object |-> 0]

NoConstruction == [class |-> "", data |-> None, error |-> "", message |-> ""]

InitTables ==
    /\ objects = <<>>
    /\ compared = NoComparison
    /\ looked = NoLookup
    /\ made = NoConstruction

\* Names of the non-terminals under construction.
NonTerminalNames == {"N", "M"}

\* No operator applied.
NoOperation == [name |-> "", left |-> None, right |-> None]

\* No Production object yet, and NonTerminal.__init__ has given every
\* non-terminal the empty ProductionAlternatives().
InitConstruction ==
    /\ heap = <<>>
    /\ bound = [n \in NonTerminalNames |-> <<>>]
    /\ terms = <<>>
    /\ operation = NoOperation
    /\ thrown = ""

\* The parser and the caller after a call that left out.
Called(out) ==
    /\ parse_tree' = out.self.parse_tree
    /\ return_value' = out.self.return_value
    /\ _tokens' = out.self._tokens
    /\ _lookahead' = out.self._lookahead
    /\ _stack' = out.self._stack
    /\ result' = out.result
    /\ prev_result' = result

\* ---- A parser of a grammar without left recursion ----

Init ==
    /\ \E g \in PoolGrammars : NoLeftRecursion(g.productions) /\ InitParser(g)
    /\ InitNfa
    /\ InitRegex
    /\ InitLexer(PoolLexer)
    /\ InitConstruction
    /\ InitTables
    /\ InitConcurrent
    /\ InitMatching

\* One call parser.parse(string).
Parse(input) ==
    /\ Called(parse(grammar, lexer, Self, input))
    /\ UNCHANGED <<grammar, nfaVars, regexVars, lexerVars, constructionVars, tableVars, concurrentVars, matchVars>>

Next == \E input \in PoolInputs : Parse(input)

Spec == Init /\ [][Next]_vars

\* ---- NFAs built by the combinators, and their DFAs ----

\* The states of the NFAs under construction, taken together.
RECURSIVE TotalStates(_)
TotalStates(nfas) ==
    IF nfas = <<>> THEN 0 ELSE Nfa_len(Head(nfas)) + TotalStates(Tail(nfas))

\* The operands without the n on top.
Below(n) == SubSeq(operands, 1, Len(operands) - n)

\* The operand at depth n, the top being at depth 1.
Operand(n) == operands[Len(operands) + 1 - n]

Building == nfa_match = ""

UnmatchedNfa == UNCHANGED <<string, nfa_match, dfa_match, parserVars, regexVars, lexerVars, constructionVars, tableVars, concurrentVars, matchVars>>

InitNfaSpec ==
    /\ InitParser(Grammar(<<>>, <<>>))
    /\ InitNfa
    /\ InitRegex
    /\ InitLexer(PoolLexer)
    /\ InitConstruction
    /\ InitTables
    /\ InitConcurrent
    /\ InitMatching

MakeEpsilon ==
    /\ Building
    /\ TotalStates(operands) + 2 <= MaxStates
    /\ operands' = Append(operands, Nfa_epsilon)
    /\ UnmatchedNfa

MakeChar(char) ==
    /\ Building
    /\ TotalStates(operands) + 2 <= MaxStates
    /\ operands' = Append(operands, Nfa_char(char))
    /\ UnmatchedNfa

MakeConcat ==
    /\ Building
    /\ Len(operands) >= 2
    /\ operands' = Append(Below(2), Nfa_concat(<<Operand(2), Operand(1)>>))
    /\ UnmatchedNfa

MakeUnion ==
    /\ Building
    /\ Len(operands) >= 2
    /\ TotalStates(operands) + 2 <= MaxStates
    /\ operands' = Append(Below(2), Nfa_union(<<Operand(2), Operand(1)>>))
    /\ UnmatchedNfa

MakeStar ==
    /\ Building
    /\ Len(operands) >= 1
    /\ TotalStates(operands) + 2 <= MaxStates
    /\ operands' = Append(Below(1), Nfa_star(Operand(1)))
    /\ UnmatchedNfa

\* nfa.match(w) and Dfa(nfa).match(w) for the NFA on top.
Match(w) ==
    /\ Building
    /\ Len(operands) >= 1
    /\ string' = w
    /\ nfa_match' = IF Nfa_match(Operand(1), w) THEN "True" ELSE "False"
    /\ dfa_match' = IF Dfa_match(Dfa(Operand(1)), w) THEN "True" ELSE "False"
    /\ UNCHANGED <<operands, parserVars, regexVars, lexerVars, constructionVars, tableVars, concurrentVars, matchVars>>

NextNfa ==
    \/ MakeEpsilon
    \/ \E char \in {"a", "b"} : MakeChar(char)
    \/ MakeConcat
    \/ MakeUnion
    \/ MakeStar
    \/ \E w \in Strings({"a", "b"}, MaxLen) : Match(w)

SpecNfa == InitNfaSpec /\ [][NextNfa]_vars

\* ---- The regex module: compile and match ----

\* The patterns and strings of the documented scenarios.
ScenarioPatterns ==
    { <<"(", "a", "b", ")", "+", "c", "d">>,
      <<"(", "a", "|", "b", ")", "*", "c">>,
      <<"a", "?", "b">>,
      <<"a", "b", "|", "c">> }

ScenarioStrings ==
    { <<"a", "b", "c", "d">>, <<"a", "b", "a", "b", "c", "d">>,
      <<"c", "d">>, <<"a", "b">>, <<"b">>, <<"a", "a", "b">>, <<"c">> }

\* The characters of the enumerated patterns; parentheses, whose
\* nesting multiplies the alternatives retried, are left to the
\* scenario patterns.
PatternChars == {"a", "b", "*", "|", "?", "+"}

Patterns == Strings(PatternChars, MaxPatLen) \cup ScenarioPatterns

\* The patterns compiled one after the other, in any order: those of the
\* scenarios, a pattern with a top-level '|' and an ill-formed one.
SequencePatterns == ScenarioPatterns \cup {<<"a", "|", "b">>, <<"*">>}

InitRegexSpec ==
    /\ InitParser(regex_grammar)
    /\ InitNfa
    /\ InitRegex
    /\ InitLexer(regex_lexer)
    /\ InitConstruction
    /\ InitTables
    /\ InitConcurrent
    /\ InitMatching

\* The module after compile left c.
Compiled(regex, c) ==
    /\ Called([self |-> c.self, result |-> c.result])
    /\ pattern' = regex
    /\ automaton' = c.automaton
    /\ string' = <<>>
    /\ dfa_match' = ""
    /\ UNCHANGED <<grammar, operands, nfa_match, lexerVars, constructionVars, tableVars, concurrentVars, matchVars>>

\* One call compile(regex): the module compiles one of the enumerated
\* patterns, or the patterns of SequencePatterns one after the other.
Compile(regex) ==
    /\ result = "" \/ (pattern \in SequencePatterns /\ regex \in SequencePatterns)
    /\ Compiled(regex, compile(Self, regex))

\* One call match(automaton, w) on the DFA compile returned.
MatchCompiled(w) ==
    /\ automaton.k = "Dfa"
    /\ string' = w
    /\ dfa_match' = IF Dfa_match(automaton, w) THEN "True" ELSE "False"
    /\ UNCHANGED <<parserVars, operands, nfa_match, regexVars, lexerVars, constructionVars, tableVars, concurrentVars, matchVars>>

NextRegex ==
    \/ \E regex \in Patterns : Compile(regex)
    \/ \E w \in Strings({"a", "b"}, MaxLen) \cup ScenarioStrings : MatchCompiled(w)

SpecRegex == InitRegexSpec /\ [][NextRegex]_vars

\* ---- The parser of prefix arithmetic ----

\* string = "-+12+34"
PrefixScenario == <<"-", "+", "1", "2", "+", "3", "4">>

PrefixInputs == Strings({"+", "-", "1"}, MaxLen) \cup {PrefixScenario}

InitPrefix ==
    /\ InitParser(prefix_grammar)
    /\ InitNfa
    /\ InitRegex
    /\ InitLexer(prefix_lexer)
    /\ InitConstruction
    /\ InitTables
    /\ InitConcurrent
    /\ InitMatching

NextPrefix == \E input \in PrefixInputs : Parse(input)

SpecPrefix == InitPrefix /\ [][NextPrefix]_vars

\* ---- The parser of nested operations ----

\* "a(e(0,1),e(x,y),e(0,0))"
OperationsScenario ==
    <<"a", "(", "e", "(", "0", ",", "1", ")", ",", "e", "(", "x", ",", "y", ")", ",",
      "e", "(", "0", ",", "0", ")", ")">>

OperationsInputs ==
    Strings({"e", "(", "0"}, MaxLen)
        \cup {OperationsScenario,
               <<"e", "(", "0", ")">>,
               <<"e", "(", "x", ",", "y", ")">>,
               <<"a", "(", "e", "(", "0", ")", ",", "1", ")">>}

InitOperations ==
    /\ InitParser(operations_grammar)
    /\ InitNfa
    /\ InitRegex
    /\ InitLexer(operations_lexer)
    /\ InitConstruction
    /\ InitTables
    /\ InitConcurrent
    /\ InitMatching

NextOperations == \E input \in OperationsInputs : Parse(input)

SpecOperations == InitOperations /\ [][NextOperations]_vars

\* ---- A lexer on its own ----

\* The configurations of the lexer: no or some admissible characters,
\* no or some special characters, the lexer of the regex module among
\* them.
LexerConfigs ==
    {CharacterStream(admissible, special, "\\", "char") :
        admissible \in {{}, {"a", "*"}},
        special \in {{}, {"*"}, {"(", ")", "*", "|", "?", "+"}}}

LexerInputs == Strings({"a", "b", "*", "\\"}, MaxLen)

InitLexerSpec ==
    /\ InitParser(Grammar(<<>>, <<>>))
    /\ InitNfa
    /\ InitRegex
    /\ \E l \in LexerConfigs : InitLexer(l)
    /\ InitConstruction
    /\ InitTables
    /\ InitConcurrent
    /\ InitMatching

\* One call lexer.tokenize(input).
Tokenize(input) ==
    /\ string' = input
    /\ lexed' = tokenize(lexer, input)
    /\ UNCHANGED <<lexer, operands, nfa_match, dfa_match, parserVars, regexVars, constructionVars, tableVars, concurrentVars, matchVars>>

NextLexer == \E input \in LexerInputs : Tokenize(input)

SpecLexer == InitLexerSpec /\ [][NextLexer]_vars

\* ---- Construction of a grammar with the operators of grammar.py ----

\* Most Production objects created, and most values built by operators.
MaxProductions == 1

MaxTerms == 1

\* The values a construction starts from: symbols, Epsilon() and a Return
\* object.
Atoms == {Terminal("A"), NonTerminal("N"), Epsilon, Return("f")}

\* The operands of an operator: a value the program starts from or one
\* that an operator has built.  The left one is of a class that defines
\* operators.
Rights == Atoms \cup {terms[i] : i \in 1..Len(terms)}

Lefts == {v \in Rights : TypeOf(v) \in {"Terminal", "NonTerminal", "Production", "ProductionAlternatives"}}

InitConstructionSpec ==
    /\ InitParser(Grammar(<<>>, <<>>))
    /\ InitNfa
    /\ InitRegex
    /\ InitLexer(PoolLexer)
    /\ InitConstruction
    /\ InitTables
    /\ InitConcurrent
    /\ InitMatching

\* left op right has left out: the program keeps the value returned, if
\* it is a new one.  No operator is applied after one has raised: the
\* module catches no exception, so the construction ends there.
Operated(name, left, right, out) ==
    /\ thrown = ""
    /\ Len(out.heap) <= MaxProductions
    /\ operation' = [name |-> name, left |-> left, right |-> right]
    /\ thrown' = out.error
    /\ heap' = out.heap
    /\ IF out.error = "" /\ out.value \notin Rights
       THEN Len(terms) < MaxTerms /\ terms' = Append(terms, out.value)
       ELSE terms' = terms
    /\ UNCHANGED <<bound, parserVars, nfaVars, regexVars, lexerVars, tableVars, concurrentVars, matchVars>>

Concatenate(left, right) == Operated("+", left, right, add(heap, left, right))

Alternate(left, right) == Operated("|", left, right, or(heap, left, right))

Attach(left, right) == Operated(">>", left, right, rshift(heap, left, right))

\* n += other has left out.
Bound(n, other, out) ==
    /\ thrown = ""
    /\ Len(out.heap) <= MaxProductions
    /\ operation' = [name |-> "+=", left |-> NonTerminal(n), right |-> other]
    /\ thrown' = out.error
    /\ heap' = out.heap
    /\ bound' = out.bound
    /\ UNCHANGED <<terms, parserVars, nfaVars, regexVars, lexerVars, tableVars, concurrentVars, matchVars>>

Bind(n, other) == Bound(n, other, NonTerminal_iadd(heap, bound, NonTerminal(n), other))

NextConstruction ==
    \/ \E left \in Lefts, right \in Rights : Concatenate(left, right)
    \/ \E left \in Lefts, right \in Rights : Alternate(left, right)
    \/ \E left \in Lefts, right \in Rights : Attach(left, right)
    \/ \E n \in NonTerminalNames, other \in Rights : Bind(n, other)

SpecConstruction == InitConstructionSpec /\ [][NextConstruction]_vars

\* ---- TableRow and Table objects, compared and looked up ----

\* Most objects created.
MaxObjects == 2

\* The dicts rows are made of, the defaults, and the columns looked up.
RowData ==
    {EmptyDict, [c \in {"a"} |-> IntValue(1)], [c \in {"b"} |-> IntValue(2)],
     [c \in {"a"} |-> IntValue(2)], [c \in {"b"} |-> IntValue(3)]}

TableData ==
    {List(<<>>),
     List(<<[c \in {"a"} |-> IntValue(1)], [c \in {"b"} |-> IntValue(2)]>>),
     List(<<[c \in {"a"} |-> IntValue(2)], [c \in {"b"} |-> IntValue(3)]>>),
     List(<<TableRow([c \in {"a"} |-> IntValue(1)], DefaultSet)>>)}

\* Data of the wrong shape: a str and an int for a row, and for a table
\* the characters of a str and a list whose second row is an int.
BadRowData == {Str("string"), IntValue(0)}

BadTableData ==
    {List(<<Str("s"), Str("t")>>), List(<<[c \in {"a"} |-> IntValue(1)], IntValue(0)>>)}

Defaults == {None, DefaultSet}

Columns == {"a", "b"}

\* lambda x: x + 1
AddOne(x) == IntValue(x.n + 1)

\* An object: its class and its state.
Object(class, value) == [class |-> class, value |-> value]

\* object.__eq__, which TableRow and Table inherit as they define none:
\* an object equals itself only.  other = 0 stands for a str.
object_eq(this, other) == this = other

InitTablesSpec ==
    /\ InitParser(Grammar(<<>>, <<>>))
    /\ InitNfa
    /\ InitRegex
    /\ InitLexer(PoolLexer)
    /\ InitConstruction
    /\ InitTables
    /\ InitConcurrent
    /\ InitMatching

\* The class of a value handed to a constructor: a dict is a function of
\* its columns, a TableRow has data and default.
ClassOf(value) ==
    IF "k" \in DOMAIN value THEN value.k
    ELSE IF "default" \in DOMAIN value THEN "TableRow"
    ELSE "dict"

\* raise AutomatonError("Unsupported type: %s" % type(value))
AutomatonError(value) ==
    [error |-> "AutomatonError",
     message |-> "Unsupported type: <class '" \o ClassOf(value) \o "'>",
     value |-> None]

Constructed(value) == [error |-> "", message |-> "", value |-> value]

\* TableRow.__init__ without the test of the type of data.
TableRow_init_unchecked(data, default) ==
    Constructed(TableRow(IF ClassOf(data) = "dict" THEN data ELSE EmptyDict, default))

\* TableRow.__init__: data None or empty gives a new empty dict.
TableRow_init(data, default) ==
    IF ClassOf(data) \notin {"None", "dict"}
    THEN AutomatonError(data)
    ELSE Constructed(TableRow(IF ClassOf(data) = "None" THEN EmptyDict ELSE data, default))

\* Table._process_data: the rows so far are rows, the next one data[i].
RECURSIVE _process_data(_, _, _, _)
_process_data(data, default, i, rows) ==
    IF i > Len(data) THEN Constructed(rows)
    ELSE IF ClassOf(data[i]) = "dict"
    THEN _process_data(data, default, i + 1,
             Append(rows, TableRow_init(data[i], default).value))
    ELSE IF ClassOf(data[i]) = "TableRow"
    THEN _process_data(data, default, i + 1,
             Append(rows, TableRow_init(data[i].data, default).value))
    ELSE AutomatonError(data[i])

\* The Table whose rows _process_data has returned, or its exception.
Table_processed(out, default) ==
    IF out.error # "" THEN out
    ELSE Constructed([data |-> out.value, default |-> default])

\* Table.__init__ of a list, or of None.
Table_init(data, default) ==
    IF ClassOf(data) = "None" THEN Constructed([data |-> <<>>, default |-> default])
    ELSE Table_processed(_process_data(data.items, default, 1, <<>>), default)

Created(object) ==
    /\ Len(objects) < MaxObjects
    /\ objects' = Append(objects, object)
    /\ compared' = NoComparison
    /\ looked' = NoLookup
    /\ made' = NoConstruction
    /\ UNCHANGED <<parserVars, nfaVars, regexVars, lexerVars, constructionVars, concurrentVars, matchVars>>

\* class(data, default) has left out: the object is there unless the
\* constructor raised.
Construct(class, data, out) ==
    /\ Len(objects) < MaxObjects
    /\ objects' = IF out.error = "" THEN Append(objects, Object(class, out.value))
                  ELSE objects
    /\ compared' = NoComparison
    /\ looked' = NoLookup
    /\ made' = [class |-> class, data |-> data, error |-> out.error,
                       message |-> out.message]
    /\ UNCHANGED <<parserVars, nfaVars, regexVars, lexerVars, constructionVars, concurrentVars, matchVars>>

NewTableRow(data, default) == Construct("TableRow", data, TableRow_init(data, default))

NewTable(data, default) == Construct("Table", data, Table_init(data, default))

\* objects[i].map(lambda x: x + 1)
Map(i) ==
    /\ objects[i].class \in {"TableRow", "Table"}
    /\ IF objects[i].class = "Table"
       THEN Created(Object("Table", Table_map(objects[i].value, AddOne)))
       ELSE Created(Object("TableRow", TableRow_map(objects[i].value, AddOne)))

\* objects[this] == objects[other], or == a str when other is 0.
Compare(this, other) ==
    /\ objects[this].class \in {"TableRow", "Table"}
    /\ compared' = [this |-> this, other |-> other, equal |-> object_eq(this, other)]
    /\ looked' = NoLookup
    /\ made' = NoConstruction
    /\ UNCHANGED <<objects, parserVars, nfaVars, regexVars, lexerVars, constructionVars, concurrentVars, matchVars>>

\* The row a lookup addresses: the TableRow object itself, or the row of
\* a Table at row_index.
RowOf(object, row_index) ==
    IF object.class = "TableRow" THEN object.value
    ELSE Table_getitem(object.value, row_index)

\* The object after the lookup has left the dict of its row as data.
WithData(object, row_index, data) ==
    IF object.class = "TableRow"
    THEN [object EXCEPT !.value.data = data]
    ELSE [object EXCEPT !.value.data[row_index + 1].data = data]

\* row[column]: _return_default() is evaluated first, and a callable default
\* constructs a new object whether or not the column is missing.
GetItem(owner, row_index, column, row, constructed) ==
    /\ Len(objects) + constructed <= MaxObjects
    /\ objects' =
           [i \in 1..(Len(objects) + constructed) |->
               IF i = owner
               THEN WithData(objects[i], row_index,
                             dict_get(row.data, column, _return_default(row)).dict)
               ELSE IF i <= Len(objects) THEN objects[i]
               ELSE Object("set", _return_default(row))]
    /\ looked' = [owner |-> owner, row_index |-> row_index, item |-> column,
                  value |-> dict_get(row.data, column, _return_default(row)).value,
                  object |-> IF constructed = 1 /\ column \notin DOMAIN row.data
                             THEN Len(objects) + 1 ELSE 0]
    /\ compared' = NoComparison
    /\ made' = NoConstruction
    /\ UNCHANGED <<parserVars, nfaVars, regexVars, lexerVars, constructionVars, concurrentVars, matchVars>>

\* objects[owner][column] of a TableRow, objects[owner][row_index][column] of
\* a Table.
Lookup(owner, row_index, column) ==
    /\ objects[owner].class \in {"TableRow", "Table"}
    /\ IF objects[owner].class = "TableRow" THEN row_index = -1
       ELSE row_index \in 0..Table_final(objects[owner].value)
    /\ GetItem(owner, row_index, column, RowOf(objects[owner], row_index),
               IF RowOf(objects[owner], row_index).default.k = "callable" THEN 1 ELSE 0)

NextTables ==
    \/ \E data \in RowData \cup BadRowData \cup {None}, default \in Defaults :
           NewTableRow(data, default)
    \/ \E data \in TableData \cup BadTableData \cup {None}, default \in Defaults :
           NewTable(data, default)
    \/ \E i \in 1..Len(objects) : Map(i)
    \/ \E this \in 1..Len(objects), other \in 0..Len(objects) : Compare(this, other)
    \/ \E owner \in 1..Len(objects), row_index \in -1..1, column \in Columns :
           Lookup(owner, row_index, column)

SpecTables == InitTablesSpec /\ [][NextTables]_vars

\* ---- Matchers sharing one NFA and its DFA ----

\* The callers.
Callers == {1, 2}

\* A caller that has called nothing.
IdleCaller == [call |-> "", string |-> <<>>, i |-> 0, states |-> {}, state |-> 0, result |-> ""]

\* The automata shared: combinations of char('a') and char('b').
SharedNfas ==
    {Nfa_char("a"),
     Nfa_concat(<<Nfa_char("a"), Nfa_char("b")>>),
     Nfa_union(<<Nfa_char("a"), Nfa_char("b")>>),
     Nfa_star(Nfa_char("a")),
     Nfa_concat(<<Nfa_star(Nfa_char("a")), Nfa_char("b")>>)}

InitMatchers ==
    /\ InitMatching
    /\ InitParser(Grammar(<<>>, <<>>))
    /\ InitNfa
    /\ InitRegex
    /\ InitLexer(PoolLexer)
    /\ InitConstruction
    /\ InitTables
    /\ \E nfa \in SharedNfas : shared = [nfa |-> nfa, dfa |-> Dfa(nfa)]
    /\ callers = [m \in Callers |-> IdleCaller]

Others == UNCHANGED <<parserVars, nfaVars, regexVars, lexerVars, constructionVars, tableVars, matchVars>>

\* The transition table after the look-ups self[state][char] that
\* transition(states, char) makes in the rows of epsilon_closure(states).
transition_table(nfa, states, char) ==
    [data |-> [r \in 1..Len(nfa.table.data) |->
                  IF (r - 1) \in epsilon_closure(nfa, states)
                  THEN TableRow(dict_get(nfa.table.data[r].data, char,
                                         _return_default(nfa.table.data[r])).dict,
                                nfa.table.data[r].default)
                  ELSE nfa.table.data[r]],
     default |-> nfa.table.default]

\* Caller m enters nfa.match(w) or dfa.match(w): states = {0}, state = 0.
EnterMatch(m, call, w) ==
    /\ callers[m].call = ""
    /\ callers' = [callers EXCEPT ![m] =
                      [call |-> call, string |-> w, i |-> 1, states |-> {0},
                       state |-> 0, result |-> ""]]
    /\ UNCHANGED shared
    /\ Others

\* The caller after one round of the loop of Nfa.match that gave states.
NfaMatched(caller, states) ==
    IF states = {} THEN [caller EXCEPT !.states = states, !.result = "False"]
    ELSE [caller EXCEPT !.states = states, !.i = caller.i + 1]

\* One round of the loop of Nfa.match in caller m, or its return.
StepNfaMatch(m) ==
    /\ callers[m].call = "Nfa.match"
    /\ callers[m].result = ""
    /\ IF callers[m].i > Len(callers[m].string)
       THEN /\ callers' = [callers EXCEPT ![m].result =
                   IF Nfa_is_final(shared.nfa, callers[m].states) THEN "True" ELSE "False"]
            /\ UNCHANGED shared
       ELSE /\ callers' = [callers EXCEPT ![m] =
                   NfaMatched(callers[m], transition(shared.nfa, callers[m].states,
                                                     callers[m].string[callers[m].i]))]
            /\ shared' = [shared EXCEPT !.nfa.table =
                   transition_table(shared.nfa, callers[m].states,
                                    callers[m].string[callers[m].i])]
    /\ Others

\* The caller after one round of the loop of Dfa.match, or its return;
\* the KeyError of a missing row or column is caught and gives False.
DfaMatched(dfa, caller) ==
    IF caller.i > Len(caller.string)
    THEN [caller EXCEPT !.result =
             IF Dfa_is_final(dfa, caller.state) THEN "True" ELSE "False"]
    ELSE IF caller.state \notin DOMAIN dfa.table
            \/ caller.string[caller.i] \notin DOMAIN dfa.table[caller.state]
    THEN [caller EXCEPT !.result = "False"]
    ELSE [caller EXCEPT !.state = dfa.table[caller.state][caller.string[caller.i]],
                        !.i = caller.i + 1]

StepDfaMatch(m) ==
    /\ callers[m].call = "Dfa.match"
    /\ callers[m].result = ""
    /\ callers' = [callers EXCEPT ![m] = DfaMatched(shared.dfa, callers[m])]
    /\ UNCHANGED shared
    /\ Others

NextMatchers ==
    \/ \E m \in Callers, call \in {"Nfa.match", "Dfa.match"}, w \in Strings({"a", "b"}, MaxLen) :
           EnterMatch(m, call, w)
    \/ \E m \in Callers : StepNfaMatch(m)
    \/ \E m \in Callers : StepDfaMatch(m)

SpecMatchers == InitMatchers /\ [][NextMatchers]_vars

\* ---- Two parsers of one grammar and one lexer, used at the same time ----

\* A caller that holds its own parser and has called nothing yet: the
\* string of its latest parse, the attributes of its parser when the
\* call was made (entry) and now (self), what the lexer returned and
\* what _scan returned (None before that), where the call is (at) and
\* what it returned or raised.
IdleParser ==
    [call |-> "", string |-> <<>>, entry |-> NewParser, self |-> NewParser,
     lexed |-> None, scan |-> None, at |-> "", result |-> ""]

\* The grammars the two parsers are built on, and the strings parsed:
\* the strings of a alone, and one that ends in b.
SharedGrammars ==
    { Grammar(<<"S", "X">>, [S |-> <<PoolS[2], PoolS[3]>>, X |-> <<PoolX[2], PoolX[1]>>]),
      Grammar(<<"S", "X">>, [S |-> <<PoolS[3], PoolS[1]>>, X |-> <<PoolX[2], PoolX[1]>>]),
      Grammar(<<"S", "X">>, [S |-> <<PoolS[3], PoolS[1]>>, X |-> <<PoolX[1], PoolX[3]>>]) }

SharedInputs == Strings({"a"}, MaxLen) \cup {<<"a", "b">>}

InitParsers ==
    /\ InitMatching
    /\ InitParser(None)
    /\ InitNfa
    /\ InitRegex
    /\ InitLexer(None)
    /\ InitConstruction
    /\ InitTables
    /\ \E g \in SharedGrammars : shared = [grammar |-> g, lexer |-> PoolLexer]
    /\ callers = [m \in Callers |-> IdleParser]

\* The assignments self.<attribute> = ... of the parser of caller m as
\* if the attributes belonged to the class: every parser gets them.
setattr_of_class(instances, m, self) ==
    [n \in DOMAIN instances |-> [instances[n] EXCEPT !.self = self]]

\* The assignments self.<attribute> = ... of the parser of caller m: the
\* attributes are made on the instance by __init__, so the parsers of
\* the other callers keep theirs.
setattr(instances, m, self) == [instances EXCEPT ![m].self = self]

\* Caller m calls parse(string) on its parser, which has the lexer
\* tokenize the string.
EnterParse(m, input) ==
    /\ callers[m].at = ""
    /\ callers' = [callers EXCEPT ![m] =
           [IdleParser EXCEPT !.call = "parse", !.string = input,
                              !.entry = callers[m].self, !.self = callers[m].self,
                              !.lexed = tokenize(shared.lexer, input),
                              !.at = "tokenize"]]
    /\ UNCHANGED shared
    /\ Others

\* parse in caller m goes on with _reset, unless the lexer raised.
StepReset(m) ==
    /\ callers[m].at = "tokenize"
    /\ callers' =
           IF callers[m].lexed.error # ""
           THEN [callers EXCEPT ![m].result = callers[m].lexed.error, ![m].at = ""]
           ELSE [setattr(callers, m, _reset(callers[m].self, callers[m].lexed.tokens))
                    EXCEPT ![m].at = "_reset"]
    /\ UNCHANGED shared
    /\ Others

\* parse in caller m goes on with _scan, which leaves the lookahead and
\* the stack in the parser.
StepScan(m) ==
    /\ callers[m].at = "_reset"
    /\ callers' = [setattr(callers, m,
                       scanned(callers[m].self,
                               _scan(shared.grammar.productions,
                                     shared.grammar.non_terminals[1],
                                     callers[m].self._tokens,
                                     callers[m].self._lookahead,
                                     callers[m].self._stack)))
                     EXCEPT ![m].scan =
                               _scan(shared.grammar.productions,
                                     shared.grammar.non_terminals[1],
                                     callers[m].self._tokens,
                                     callers[m].self._lookahead,
                                     callers[m].self._stack),
                            ![m].at = "_scan"]
    /\ UNCHANGED shared
    /\ Others

\* parse in caller m ends: with the tree built from the tokens and the
\* stack its parser holds now if _scan returned True.
StepReturn(m) ==
    /\ callers[m].at = "_scan"
    /\ callers' = [setattr(callers, m,
                       parse_scanned(shared.grammar, callers[m].self, callers[m].scan).self)
                     EXCEPT ![m].result =
                               parse_scanned(shared.grammar, callers[m].self,
                                             callers[m].scan).result,
                            ![m].at = ""]
    /\ UNCHANGED shared
    /\ Others

NextParsers ==
    \/ \E m \in Callers, input \in SharedInputs : EnterParse(m, input)
    \/ \E m \in Callers : StepReset(m)
    \/ \E m \in Callers : StepScan(m)
    \/ \E m \in Callers : StepReturn(m)

SpecParsers == InitParsers /\ [][NextParsers]_vars

\* ---- The match functions of a parser, called one after the other ----

\* The grammars with MaxAlts alternatives for each non-terminal.
MatchGrammars ==
    {g \in PoolGrammars :
        \A name \in DOMAIN g.productions : Len(g.productions[name]) = MaxAlts}

InitMatch ==
    /\ \E g \in MatchGrammars : NoLeftRecursion(g.productions) /\ InitParser(g)
    /\ InitNfa
    /\ InitRegex
    /\ InitLexer(PoolLexer)
    /\ InitConstruction
    /\ InitTables
    /\ InitConcurrent
    /\ InitMatching

\* self._reset(tokens) with the tokens of an input, on the new parser.
Reset(input) ==
    /\ matched = NoMatch
    /\ _lookahead = NewParser._lookahead
    /\ Called([self |-> _reset(Self, tokenize(lexer, input).tokens), result |-> ""])
    /\ matched' = NoMatch
    /\ UNCHANGED <<grammar, nfaVars, regexVars, lexerVars, constructionVars, tableVars, concurrentVars>>

\* The parser after a match function, called with the argument, left r;
\* an exception that nothing catches ends the calls.
Matching(function, argument, r) ==
    /\ result \in {"", "True", "False"}
    /\ Len(_stack) <= MaxStack
    /\ matched' = [function |-> function, argument |-> argument]
    /\ _lookahead' = r.lookahead
    /\ _stack' = r.stack
    /\ result' = IF r.error # "" THEN r.error ELSE IF r.ok THEN "True" ELSE "False"
    /\ UNCHANGED <<grammar, parse_tree, return_value, _tokens, prev_result, nfaVars, regexVars,
                   lexerVars, constructionVars, tableVars, concurrentVars>>

MatchTerminal(terminal) ==
    /\ terminal.t = "Terminal"
    /\ Matching("_match_terminal", terminal,
                _match_terminal(_tokens, terminal, _lookahead, _stack))

\* _match_production_element(Epsilon())
MatchEpsilon ==
    /\ Epsilon.t = "Epsilon"
    /\ Matching("_match_production_element", Epsilon,
                _match_production_element(grammar.productions, _tokens, Epsilon,
                                          _lookahead, _stack))

MatchProduction(name, i) ==
    /\ i \in 1..Len(grammar.productions[name])
    /\ Matching("_match_production", ProductionId(name, i),
                _match_production(grammar.productions, _tokens,
                                  grammar.productions[name][i], _lookahead, _stack))

MatchNonTerminal(name) ==
    /\ name \in DOMAIN grammar.productions
    /\ Matching("_match_non_terminal", NonTerminal(name),
                _match_non_terminal(grammar.productions, _tokens, NonTerminal(name),
                                    _lookahead, _stack))

NextMatch ==
    \/ \E input \in PoolInputs : Reset(input)
    \/ \E name \in {"a", "b"} : MatchTerminal(Terminal(name))
    \/ MatchEpsilon
    \/ \E name \in {"S", "X"}, i \in 1..MaxAlts : MatchProduction(name, i)
    \/ \E name \in {"S", "X"} : MatchNonTerminal(name)

SpecMatch == InitMatch /\ [][NextMatch]_vars

\* ---- A parser of a grammar with productions that have no Return ----

\* Grammars in which a production of two children has no Return object:
\* the first alternative of the start symbol, or the first of X below a
\* start symbol whose alternatives have one.
ReductionGrammars ==
    { Grammar(<<"S", "X">>,
          [S |-> << Production(<<NonTerminal("X"), Terminal("b")>>, None),
                    Production(<<Terminal("a"), NonTerminal("S")>>, Return("h")) >>,
           X |-> << Production(<<Terminal("a")>>, None) >>]),
      Grammar(<<"S", "X">>,
          [S |-> << Production(<<NonTerminal("X"), Terminal("b")>>, ReturnArgs("g", <<0>>)),
                    Production(<<Terminal("a"), NonTerminal("S")>>, Return("h")) >>,
           X |-> << Production(<<Terminal("a"), Terminal("a")>>, None),
                    Production(<<Terminal("a")>>, None) >>]) }

InitReduction ==
    /\ \E g \in ReductionGrammars : InitParser(g)
    /\ InitNfa
    /\ InitRegex
    /\ InitLexer(PoolLexer)
    /\ InitConstruction
    /\ InitTables
    /\ InitConcurrent
    /\ InitMatching

SpecReduction == InitReduction /\ [][Next]_vars

\* ---- Grammars assembled from declared non-terminals ----

\* The NonTerminal objects declared.
MaxNonTerminals == 3

\* NonTerminal(name) as an object: the id tells the objects of one name
\* apart.
NonTerminalObject(name, id) == [t |-> "NonTerminal", name |-> name, id |-> id]

\* Grammar.__init__: in the dict a later object of a name replaces an
\* earlier one.
Grammar_init(non_terminals) ==
    [k |-> "Grammar", non_terminals |-> non_terminals,
     _dict |-> [name \in {non_terminals[i].name : i \in 1..Len(non_terminals)} |->
                   non_terminals[CHOOSE i \in 1..Len(non_terminals) :
                       /\ non_terminals[i].name = name
                       /\ \A j \in (i + 1)..Len(non_terminals) :
                              non_terminals[j].name # name]]]

\* Grammar.__getitem__ for an index from 0 on, a name or a NonTerminal:
\* the value returned or the exception raised.
Grammar_getitem(self, key) ==
    CASE TypeOf(key) = "int" ->
             IF key.n < Len(self.non_terminals)
             THEN [value |-> self.non_terminals[key.n + 1], error |-> ""]
             ELSE [value |-> None, error |-> "IndexError"]
      [] TypeOf(key) = "str" ->
             IF key.s \in DOMAIN self._dict
             THEN [value |-> self._dict[key.s], error |-> ""]
             ELSE [value |-> None, error |-> "KeyError"]
      [] TypeOf(key) = "NonTerminal" ->
             IF key.name \in DOMAIN self._dict
             THEN [value |-> self._dict[key.name], error |-> ""]
             ELSE [value |-> None, error |-> "KeyError"]
      [] OTHER -> [value |-> None, error |-> "TypeError"]

InitGrammar ==
    /\ InitParser(None)
    /\ InitNfa
    /\ InitRegex
    /\ InitLexer(None)
    /\ InitConstruction
    /\ InitTables
    /\ InitConcurrent
    /\ InitMatching

NotGrammar == UNCHANGED <<parse_tree, return_value, _tokens, _lookahead, _stack, result, prev_result, heap, bound, nfaVars, regexVars, lexerVars, tableVars, concurrentVars, matchVars>>

\* NonTerminal(name) is called, before a grammar is assembled.
DeclareNonTerminal(name) ==
    /\ grammar = None
    /\ Len(terms) < MaxNonTerminals
    /\ terms' = Append(terms, NonTerminalObject(name, Len(terms) + 1))
    /\ UNCHANGED <<grammar, operation, thrown>>
    /\ NotGrammar

\* Grammar(*non_terminals) is called with declared non-terminals, each
\* passed once, picked by their places.
AssembleGrammar(picks) ==
    /\ grammar = None
    /\ \A i \in 1..Len(picks) : picks[i] <= Len(terms)
    /\ \A i, j \in 1..Len(picks) : i # j => picks[i] # picks[j]
    /\ grammar' = Grammar_init([i \in 1..Len(picks) |-> terms[picks[i]]])
    /\ UNCHANGED <<terms, operation, thrown>>
    /\ NotGrammar

\* grammar[item] is evaluated.
LookupNonTerminal(key) ==
    /\ grammar # None
    /\ thrown = ""
    /\ TypeOf(key) = "NonTerminal" => \E i \in 1..Len(terms) : terms[i] = key
    /\ operation' = [name |-> "__getitem__", left |-> key,
                     right |-> Grammar_getitem(grammar, key).value]
    /\ thrown' = Grammar_getitem(grammar, key).error
    /\ UNCHANGED <<grammar, terms>>
    /\ NotGrammar

\* What a grammar is indexed with: an index, a name, a non-terminal,
\* or None.
Items ==
    {IntValue(n) : n \in 0..MaxNonTerminals}
    \cup {Str(name) : name \in {"S", "X", "Y"}}
    \cup {NonTerminalObject(name, id) : name \in {"S", "X"}, id \in 1..MaxNonTerminals}
    \cup {None}

NextGrammar ==
    \/ \E name \in {"S", "X"} : DeclareNonTerminal(name)
    \/ \E picks \in UNION {[1..n -> 1..MaxNonTerminals] : n \in 1..MaxNonTerminals} :
           AssembleGrammar(picks)
    \/ \E key \in Items : LookupNonTerminal(key)

SpecGrammar == InitGrammar /\ [][NextGrammar]_vars

\* ---- NFAs as objects: rows, dicts and sets with identity ----

\* The Nfa objects constructed.
MaxNfas == 3

\* The heap is the sequence `objects`; the address of an object is its
\* place in it, and a new object is put at the end.
Allocated(h, object) == Append(h, object)

\* A dict display or comprehension whose values are new sets: a set
\* object for each column of cells, then the dict of their addresses,
\* which is the last object of the heap returned.  done holds the
\* columns already constructed.
RECURSIVE dict_of_sets(_, _, _)
dict_of_sets(h, cells, done) ==
    IF DOMAIN done = DOMAIN cells THEN Allocated(h, Object("dict", done))
    ELSE dict_of_sets(
             Allocated(h, Object("set", cells[CHOOSE c \in DOMAIN cells \ DOMAIN done : TRUE])),
             cells,
             DictSet(done, CHOOSE c \in DOMAIN cells \ DOMAIN done : TRUE, Len(h) + 1))

\* TableRow(data, default=set) for the dict at address data: the row
\* keeps that very dict unless it is empty, when it gets a new one.
\* The TableRow is the last object of the heap returned.
TableRow_new(h, data) ==
    IF DOMAIN h[data].value = {}
    THEN Allocated(Allocated(h, Object("dict", EmptyDict)), Object("TableRow", Len(h) + 1))
    ELSE Allocated(h, Object("TableRow", data))

\* The cells of the TableRow at address row, as sets of integers.
CellsOf(h, row) ==
    [c \in DOMAIN h[h[row].value].value |-> h[h[h[row].value].value[c]].value]

\* The dict comprehension of TableRow.map for lambda x: {elem + i ...}.
TableRow_map_dict(h, row, i) ==
    dict_of_sets(h, [c \in DOMAIN CellsOf(h, row) |->
                        {elem + i : elem \in CellsOf(h, row)[c]}], EmptyDict)

\* TableRow.map that hands the dict of the row itself to the new row.
TableRow_map_same_dict(h, row, i) == TableRow_new(h, h[row].value)

\* row.map(lambda x: {elem + i for elem in x})
TableRow_map_shifted(h, row, i) ==
    TableRow_new(TableRow_map_dict(h, row, i), Len(TableRow_map_dict(h, row, i)))

\* [row.map(func) for row in table]: w holds the heap and the addresses
\* of the rows constructed so far.
RECURSIVE rows_mapped(_, _, _)
rows_mapped(w, rows, i) ==
    IF Len(w.rows) = Len(rows) THEN w
    ELSE rows_mapped(
             [heap |-> TableRow_map_shifted(w.heap, rows[Len(w.rows) + 1], i),
              rows |-> Append(w.rows,
                           Len(TableRow_map_shifted(w.heap, rows[Len(w.rows) + 1], i)))],
             rows, i)

\* The dict a row of the data of a Table brings: the row itself when it
\* is a dict, row.data when it is a TableRow.
data_of(h, row) == IF h[row].class = "dict" THEN row ELSE h[row].value

\* Table._process_data: TableRow(row, default=self.default) for a dict,
\* TableRow(row.data, default=self.default) for a TableRow; w holds the
\* heap and the addresses of the rows constructed so far.
RECURSIVE rows_processed(_, _)
rows_processed(w, rows) ==
    IF Len(w.rows) = Len(rows) THEN w
    ELSE rows_processed(
             [heap |-> TableRow_new(w.heap, data_of(w.heap, rows[Len(w.rows) + 1])),
              rows |-> Append(w.rows,
                           Len(TableRow_new(w.heap, data_of(w.heap, rows[Len(w.rows) + 1]))))],
             rows)

\* Table(rows, default=set) for a list of dicts or TableRow objects.
Table_new(w) == rows_processed([heap |-> w.heap, rows |-> <<>>], w.rows)

\* table.map(lambda x: {elem + i for elem in x})
Table_map_shifted(h, rows, i) ==
    Table_new(rows_mapped([heap |-> h, rows |-> <<>>], rows, i))

\* The list `shifted` of _concat_tables from table j on, its rows one
\* after the other in w.rows: the offset of table j is the number of
\* rows before it.
RECURSIVE tables_shifted(_, _, _)
tables_shifted(w, tables, j) ==
    IF j > Len(tables) THEN w
    ELSE tables_shifted(
             [heap |-> Table_map_shifted(w.heap, tables[j], Len(w.rows)).heap,
              rows |-> w.rows \o Table_map_shifted(w.heap, tables[j], Len(w.rows)).rows],
             tables, j + 1)

\* Nfa._concat_tables for tables given as lists of rows.
concat_tables_new(h, tables) ==
    Table_new(tables_shifted([heap |-> h, rows |-> <<>>], tables, 1))

\* offsets[j] of _concat_tables
RECURSIVE offset_of(_, _)
offset_of(tables, j) ==
    IF j = 1 THEN 0 ELSE offset_of(tables, j - 1) + Len(tables[j - 1])

\* Table.with_empty_row(default=set): Table([{}], default=set)
with_empty_row_new(h) ==
    [heap |-> TableRow_new(Allocated(h, Object("dict", EmptyDict)), Len(h) + 1),
     rows |-> <<Len(TableRow_new(Allocated(h, Object("dict", EmptyDict)), Len(h) + 1))>>]

\* table[row_index][column] = value, value being a new set: the dict of
\* the row is changed in place.
setitem_new(w, row_index, column, value) ==
    [heap |-> [Allocated(w.heap, Object("set", value))
                  EXCEPT ![w.heap[w.rows[row_index + 1]].value].value =
                             DictSet(w.heap[w.heap[w.rows[row_index + 1]].value].value,
                                     column, Len(w.heap) + 1)],
     rows |-> w.rows]

\* The table of the rows at the addresses given, without identities.
TableOf(h, rows) ==
    [data |-> [r \in 1..Len(rows) |-> TableRow(CellsOf(h, rows[r]), DefaultSet)],
     default |-> DefaultSet]

\* Nfa.__init__ for a Table: the table is kept as it is and the cache is
\* a list of new sets, one per state.
Nfa_new(w) ==
    [heap |-> w.heap \o [n \in 1..Len(w.rows) |->
                            Object("set", _find_epsilon_closure(TableOf(w.heap, w.rows), n - 1))],
     nfa |-> [table |-> w.rows,
              _epsilon_closure |-> [n \in 1..Len(w.rows) |-> Len(w.heap) + n]]]

\* Nfa([{column: {1}}, {}]), which Nfa.char and Nfa.epsilon call.
Nfa_char_new(h, column) ==
    Nfa_new(Table_new(
        [heap |-> Allocated(dict_of_sets(h, DictSet(EmptyDict, column, {1}), EmptyDict),
                            Object("dict", EmptyDict)),
         rows |-> <<Len(h) + 2, Len(h) + 3>>]))

\* for offset in offsets[from:]: table[offset - 1][EPSILON] = {offset}
RECURSIVE link_next_new(_, _, _)
link_next_new(w, tables, from) ==
    IF from > Len(tables) THEN w
    ELSE link_next_new(
             setitem_new(w, offset_of(tables, from) - 1, EPSILON, {offset_of(tables, from)}),
             tables, from + 1)

\* for offset in offsets[from:]: table[offset - 1][EPSILON] = {table.final}
RECURSIVE link_final_new(_, _, _)
link_final_new(w, tables, from) ==
    IF from > Len(tables) THEN w
    ELSE link_final_new(
             setitem_new(w, offset_of(tables, from) - 1, EPSILON, {Len(w.rows) - 1}),
             tables, from + 1)

\* Nfa.concat(*nfas)
Nfa_concat_new(h, nfas) ==
    Nfa_new(link_next_new(
        concat_tables_new(h, [j \in 1..Len(nfas) |-> nfas[j].table]),
        [j \in 1..Len(nfas) |-> nfas[j].table], 2))

\* The list `tables` of union and star: an empty row, the tables of the
\* operands, an empty row.
tables_between_empty_rows(h, nfas) ==
    [heap |-> with_empty_row_new(with_empty_row_new(h).heap).heap,
     tables |-> <<with_empty_row_new(h).rows>>
                \o [j \in 1..Len(nfas) |-> nfas[j].table]
                \o <<with_empty_row_new(with_empty_row_new(h).heap).rows>>]

\* Nfa.union once the list `tables` is made.
Nfa_union_tables(t) ==
    Nfa_new(link_final_new(
        setitem_new(concat_tables_new(t.heap, t.tables), 0, EPSILON,
                    {offset_of(t.tables, j) : j \in 2..(Len(t.tables) - 1)}),
        t.tables, 3))

\* Nfa.union(*nfas)
Nfa_union_new(h, nfas) == Nfa_union_tables(tables_between_empty_rows(h, nfas))

\* The two assignments of Nfa.star to the concatenated table.
Nfa_star_links(w) ==
    Nfa_new(setitem_new(
        setitem_new(w, 0, EPSILON, {1, Len(w.rows) - 1}),
        Len(w.rows) - 2, EPSILON, {0, Len(w.rows) - 1}))

\* Nfa.star once the list `tables` is made.
Nfa_star_tables(t) == Nfa_star_links(concat_tables_new(t.heap, t.tables))

\* Nfa.star(nfa)
Nfa_star_new(h, nfa) == Nfa_star_tables(tables_between_empty_rows(h, <<nfa>>))

InitObjects ==
    /\ InitParser(Grammar(<<>>, <<>>))
    /\ InitNfa
    /\ InitRegex
    /\ InitLexer(PoolLexer)
    /\ InitConstruction
    /\ InitTables
    /\ InitConcurrent
    /\ InitMatching

\* A constructor or combinator has returned out: the heap and the Nfa.
NfaReturned(class, data, out) ==
    /\ Len(operands) < MaxNfas
    /\ objects' = out.heap
    /\ operands' = Append(operands, out.nfa)
    /\ made' = [class |-> class, data |-> data, error |-> "", message |-> ""]
    /\ UNCHANGED <<string, nfa_match, dfa_match, compared, looked, parserVars, regexVars, lexerVars, constructionVars, concurrentVars, matchVars>>

\* Nfa.char(char), and Nfa.epsilon() for the column EPSILON.
NewChar(column) ==
    /\ Len(operands) < MaxNfas
    /\ NfaReturned("char", Str(column), Nfa_char_new(objects, column))

\* Nfa.concat(operands[i], operands[j]); i and j may be the same.
NewConcat(i, j) ==
    /\ i <= Len(operands) /\ j <= Len(operands)
    /\ Len(operands[i].table) + Len(operands[j].table) <= MaxStates
    /\ NfaReturned("concat", <<i, j>>, Nfa_concat_new(objects, <<operands[i], operands[j]>>))

\* Nfa.union(operands[i], operands[j])
NewUnion(i, j) ==
    /\ i <= Len(operands) /\ j <= Len(operands)
    /\ Len(operands[i].table) + Len(operands[j].table) + 2 <= MaxStates
    /\ NfaReturned("union", <<i, j>>, Nfa_union_new(objects, <<operands[i], operands[j]>>))

\* Nfa.star(operands[i])
NewStar(i) ==
    /\ i <= Len(operands)
    /\ Len(operands[i].table) + 2 <= MaxStates
    /\ NfaReturned("star", <<i>>, Nfa_star_new(objects, operands[i]))

NextObjects ==
    \/ \E column \in {"a", "b", EPSILON} : NewChar(column)
    \/ \E i, j \in 1..MaxNfas : NewConcat(i, j)
    \/ \E i, j \in 1..MaxNfas : NewUnion(i, j)
    \/ \E i \in 1..MaxNfas : NewStar(i)

SpecObjects == InitObjects /\ [][NextObjects]_vars

\* ---- The subset construction, one pass of its loop at a time ----

\* Dfa._translate_nfa(nfa) is called for the NFA built last: automaton
\* holds the NFA, the locals of the call, and the sets popped so far.
StartTranslate ==
    /\ automaton = None
    /\ Len(operands) >= 1
    /\ automaton' = [k |-> "_translate_nfa", nfa |-> Operand(1),
                     w |-> translate_start(Operand(1)), processed |-> <<>>]
    /\ UNCHANGED <<pattern, nfaVars, parserVars, lexerVars, constructionVars, tableVars, concurrentVars, matchVars>>

\* One pass of the while loop.
StepTranslate ==
    /\ automaton # None
    /\ automaton.w.stack # <<>>
    /\ automaton' = [k |-> "_translate_nfa", nfa |-> automaton.nfa,
                     w |-> translate_step(automaton.nfa, automaton.w),
                     processed |-> Append(automaton.processed,
                                          automaton.w.stack[Len(automaton.w.stack)])]
    /\ UNCHANGED <<pattern, nfaVars, parserVars, lexerVars, constructionVars, tableVars, concurrentVars, matchVars>>

\* An NFA is built by the combinators until the translation is called.
BuildNfa ==
    /\ automaton = None
    /\ \/ MakeEpsilon
       \/ \E char \in {"a", "b"} : MakeChar(char)
       \/ MakeConcat
       \/ MakeUnion
       \/ MakeStar

NextSubsets ==
    \/ BuildNfa
    \/ StartTranslate
    \/ StepTranslate

SpecSubsets == InitNfaSpec /\ [][NextSubsets]_vars

\* The while loop runs on as long as the stack is not empty.
FairSubsets == SpecSubsets /\ WF_vars(StepTranslate)

\* ------------------------------------------------------------------
\*   The context-free language of a grammar
\* ------------------------------------------------------------------

\* The categories of a token sequence.
Categories(tokens) == [i \in 1..Len(tokens) |-> tokens[i].category]

\* The elements derive exactly the category sequence w.  The recursion
\* ends for grammars without left recursion.
RECURSIVE Derives(_, _, _)
RECURSIVE DerivesElement(_, _, _)

Derives(productions, elements, w) ==
    IF elements = <<>> THEN w = <<>>
    ELSE \E n \in 0..Len(w) :
             /\ DerivesElement(productions, Head(elements), SubSeq(w, 1, n))
             /\ Derives(productions, Tail(elements), SubSeq(w, n + 1, Len(w)))

DerivesElement(productions, element, w) ==
    IF element.t = "Terminal" THEN w = <<element.name>>
    ELSE IF element.t = "Epsilon" THEN w = <<>>
    ELSE \E i \in 1..Len(productions[element.name]) :
             Derives(productions, productions[element.name][i].elements, w)

\* w is in the language of the start symbol Grammar[0].
InLanguage(g, w) ==
    DerivesElement(g.productions, NonTerminal(g.non_terminals[1]), w)

\* What matching the start symbol from the first token leaves.
StartMatch == _match_production_element(grammar.productions, _tokens, NonTerminal(grammar.non_terminals[1]), 0, <<>>)

\* ------------------------------------------------------------------
\*   Claims about the parser
\* ------------------------------------------------------------------

\* C1: parse returns true if and only if the token sequence is in the
\* context-free language of the start symbol.
C1_ParseIffInLanguage ==
    result # "" => (result = "True" <=> InLanguage(grammar, Categories(_tokens)))

\* C1 (amended): parse returns true only if the token sequence is in the
\* context-free language of the start symbol; a sequence of the language
\* may be rejected, since a non-terminal commits to its first
\* alternative that matches.
C1_TrueOnlyIfInLanguage ==
    result = "True" => InLanguage(grammar, Categories(_tokens))

\* A call on three tokens has returned true with three productions
\* recorded.
C1_Witness == result = "True" /\ Len(_tokens) = 3 /\ Len(_stack) = 3

\* C2: parse returns true only when the start symbol matched and the
\* lookahead is past the end; when the start symbol matches a proper
\* prefix and leaves a token unconsumed, parse returns false.
C2_TrueOnlyWhenAllConsumed ==
    result # "" =>
        /\ result = "True" => StartMatch.ok /\ _lookahead = LookaheadNone
        /\ (StartMatch.error = "" /\ StartMatch.ok /\ StartMatch.lookahead # LookaheadNone)
               => result = "False"

\* A call has returned false although the start symbol matched a proper
\* prefix of two tokens.
C2_Witness ==
    /\ result = "False"
    /\ StartMatch.ok
    /\ StartMatch.lookahead \in 1..(Len(_tokens) - 1)

\* C3: on empty input parse raises nothing and returns true exactly
\* when the start symbol derives the empty string.
C3_EmptyInput ==
    (result # "" /\ _tokens = <<>>) =>
        /\ result \in {"True", "False"}
        /\ result = "True" <=> InLanguage(grammar, <<>>)

\* C4: after a successful parse return_value is the bottom-up reduction
\* of the root, the default reducer standing in where a production has
\* no Return object, the root's production included.
C4_ReturnValueIsReduction ==
    result = "True" =>
        return_value = _return_value(grammar.productions, parse_tree.root)

\* C5: after a call that returned false parse_tree and return_value are
\* None, whatever the call before returned; after a call that returned
\* true parse_tree is the tree built from that call's tokens and stack.
C5_ResultsOfThisCall ==
    /\ result = "False" => parse_tree = None /\ return_value = None
    /\ result = "True" =>
           parse_tree = ParseTree(grammar.productions, _tokens, _stack)

\* A call has returned false right after a call that returned true.
C5_Witness == result = "False" /\ prev_result = "True" /\ parse_tree = None

\* C6: after a successful parse there are as many leaves, collected in
\* pre-order, as tokens, and the i-th leaf carries the i-th token, whose
\* category is the name of the leaf's terminal.
C6_LeavesAreTokens ==
    result = "True" =>
        /\ parse_tree.leaves = _find_leaves(parse_tree.root)
        /\ Len(parse_tree.leaves) = Len(_tokens)
        /\ \A i \in 1..Len(_tokens) :
               /\ parse_tree.leaves[i].token = _tokens[i]
               /\ _tokens[i].category = parse_tree.leaves[i].terminal.name

\* A parse of three tokens has succeeded after an alternative that had
\* pushed productions was abandoned.
C6_Witness ==
    /\ result = "True"
    /\ Len(parse_tree.leaves) = 3
    /\ _stack[1].index = 2

\* C7: when the start symbol has alternatives A | B and the input is in
\* the language of A, a successful parse records A for the start symbol.
C7_FirstAlternativeWins ==
    (/\ result = "True"
     /\ Len(grammar.productions[grammar.non_terminals[1]]) >= 2
     /\ Derives(grammar.productions,
                grammar.productions[grammar.non_terminals[1]][1].elements,
                Categories(_tokens)))
        => /\ _stack[1] = ProductionId(grammar.non_terminals[1], 1)
           /\ parse_tree.root.production = ProductionId(grammar.non_terminals[1], 1)

\* What the ordered-choice match of alternative j of the start symbol
\* leaves when run on its own from the first token.
AlternativeMatch(j) == _match_production(grammar.productions, _tokens, grammar.productions[grammar.non_terminals[1]][j], 0, <<ProductionId(grammar.non_terminals[1], j)>>)

\* C7 (amended): a successful parse records for the start symbol the
\* first of its alternatives, in declared order, whose ordered-choice
\* match from the first token succeeds: a later alternative is recorded
\* only when the match of every earlier one fails, whether or not the
\* input is in the language of an earlier one.
C7_FirstMatchingAlternativeWins ==
    result = "True" =>
        /\ _stack[1].head = grammar.non_terminals[1]
        /\ parse_tree.root.production = _stack[1]
        /\ AlternativeMatch(_stack[1].index).ok
        /\ \A j \in 1..(_stack[1].index - 1) : ~AlternativeMatch(j).ok

\* A successful parse has recorded the second alternative of the start
\* symbol for an input that is in the language of the first.
C7_Witness ==
    /\ result = "True"
    /\ _stack[1].index = 2
    /\ Derives(grammar.productions,
               grammar.productions[grammar.non_terminals[1]][1].elements,
               Categories(_tokens))

\* ------------------------------------------------------------------
\*   Claims about the automata
\* ------------------------------------------------------------------

\* C8: the DFA of an NFA gives the match result of the NFA on every
\* string, the empty string included.
C8_DfaMatchesLikeNfa == nfa_match # "" => dfa_match = nfa_match

\* C9: Nfa.match on the empty string returns true if and only if the
\* final state is in the epsilon-closure of {0}.
C9_EmptyStringMatch ==
    (nfa_match # "" /\ string = <<>>) =>
        (nfa_match = "True"
            <=> Nfa_final(Operand(1)) \in epsilon_closure(Operand(1), {0}))

\* The states reachable from states by at most n EPSILON transitions.
RECURSIVE EpsilonReach(_, _, _)
EpsilonReach(nfa, states, n) ==
    IF n = 0 THEN states
    ELSE EpsilonReach(nfa,
             states \cup UNION {TableRow_getitem(Table_getitem(nfa.table, s), EPSILON) : s \in states},
             n - 1)

\* C11: in every NFA built by the combinators, each state is in its own
\* epsilon-closure, the closure of a closure is that closure, and the
\* cached closure of a state is the set of the states reachable from it
\* by zero or more EPSILON transitions.
C11_EpsilonClosure ==
    \A i \in 1..Len(operands) :
        \A s \in 0..(Nfa_len(operands[i]) - 1) :
            /\ s \in epsilon_closure_int(operands[i], s)
            /\ epsilon_closure(operands[i], epsilon_closure_int(operands[i], s))
                   = epsilon_closure_int(operands[i], s)
            /\ epsilon_closure_int(operands[i], s)
                   = EpsilonReach(operands[i], {s}, Nfa_len(operands[i]))
            /\ epsilon_closure(operands[i], {s}) = epsilon_closure_int(operands[i], s)

\* An NFA has been built in which the closure of the start state takes
\* three rounds of EPSILON transitions to find.
C11_Witness ==
    \E i \in 1..Len(operands) :
        EpsilonReach(operands[i], {0}, 2) # EpsilonReach(operands[i], {0}, 3)

\* ------------------------------------------------------------------
\*   Claims about the regex module
\* ------------------------------------------------------------------

\* What the documented scenarios expect of match.
ScenarioAccepts ==
    { << <<"(", "a", "b", ")", "+", "c", "d">>, <<"a", "b", "c", "d">> >>,
      << <<"(", "a", "b", ")", "+", "c", "d">>, <<"a", "b", "a", "b", "c", "d">> >>,
      << <<"a", "?", "b">>, <<"b">> >>,
      << <<"a", "?", "b">>, <<"a", "b">> >> }

ScenarioRejects ==
    { << <<"(", "a", "b", ")", "+", "c", "d">>, <<"c", "d">> >>,
      << <<"(", "a", "b", ")", "+", "c", "d">>, <<"a", "b">> >>,
      << <<"a", "?", "b">>, <<"a", "a", "b">> >>,
      << <<"a", "?", "b">>, <<>> >> }

\* C10: compile returns a DFA for every pattern that is well-formed
\* under the regex grammar, a top-level '|' or not, and match on it gives
\* the documented results: "(ab)+cd" accepts "abcd" and "ababcd" and
\* rejects "cd" and "ab"; "a?b" accepts "b" and "ab" and rejects "aab"
\* and "".
C10_CompileReturnsDfa ==
    result # "" =>
        /\ InLanguage(regex_grammar, Categories(tokenize(regex_lexer, pattern).tokens))
               => automaton.k = "Dfa"
        /\ pattern \in ScenarioPatterns => automaton.k = "Dfa"
        /\ dfa_match # "" =>
               /\ <<pattern, string>> \in ScenarioAccepts => dfa_match = "True"
               /\ <<pattern, string>> \in ScenarioRejects => dfa_match = "False"

\* ------------------------------------------------------------------
\*   Claims about the lexer
\* ------------------------------------------------------------------

\* The tokens of a string in which the escape character makes the
\* character after it a literal of the general class.
RECURSIVE EscapedTokens(_, _, _)
EscapedTokens(l, s, i) ==
    IF i > Len(s) THEN <<>>
    ELSE IF s[i] = l._escape_character
    THEN IF i = Len(s) THEN <<>>
         ELSE <<Token(l._general_class, s[i + 1])>> \o EscapedTokens(l, s, i + 2)
    ELSE IF s[i] \in l._special_characters
    THEN <<Token(s[i], s[i])>> \o EscapedTokens(l, s, i + 1)
    ELSE <<Token(l._general_class, s[i])>> \o EscapedTokens(l, s, i + 1)

\* C12: in a regex pattern the character after an escape is emitted as
\* a token of the general class with that character as lexeme, a special
\* character included, and the escape character itself emits no token.
C12_EscapeMakesLiteral ==
    (lexed # None /\ lexer = regex_lexer /\ lexed.error = "") =>
        lexed.tokens = EscapedTokens(lexer, string, 1)

\* The characters of a string that are not the escape character.
NonEscape(l, s) == SelectSeq(s, LAMBDA c : c # l._escape_character)

\* C13: tokenize fails exactly when admissible characters are configured
\* and a character that is not the escape character is outside them;
\* when it succeeds there is one token per such character, in input
\* order, a special character as its own category and any other in the
\* general class with the character as lexeme.
C13_TokenizeFailsOrEmits ==
    lexed # None =>
        /\ lexed.error # ""
               <=> /\ lexer._admissible_characters # {}
                   /\ \E i \in 1..Len(NonEscape(lexer, string)) :
                          NonEscape(lexer, string)[i] \notin lexer._admissible_characters
        /\ lexed.error = "" =>
               /\ Len(lexed.tokens) = Len(NonEscape(lexer, string))
               /\ \A i \in 1..Len(lexed.tokens) :
                      lexed.tokens[i] =
                          IF NonEscape(lexer, string)[i] \in lexer._special_characters
                          THEN Token(NonEscape(lexer, string)[i], NonEscape(lexer, string)[i])
                          ELSE Token(lexer._general_class, NonEscape(lexer, string)[i])

\* A lexer with admissible characters has failed on a string of three
\* characters whose first is admissible.
C13_Witness ==
    /\ lexed # None
    /\ lexer._admissible_characters # {}
    /\ lexed.error = "ValueError"
    /\ Len(string) = 3
    /\ string[1] \in lexer._admissible_characters

\* ------------------------------------------------------------------
\*   Claims about the example grammars
\* ------------------------------------------------------------------

\* The lexemes of the leaves of the parse tree, in order.
LeafLexemes == [i \in 1..Len(parse_tree.leaves) |-> parse_tree.leaves[i].token.lexeme]

\* C14: the parser of prefix arithmetic returns true on "-+12+34", its
\* return_value is -4 and the lexemes of the leaves are, in order,
\* '-', '+', '1', '2', '+', '3', '4'.
C14_PrefixScenario ==
    (result # "" /\ grammar = prefix_grammar
        /\ _tokens = tokenize(prefix_lexer, PrefixScenario).tokens) =>
        /\ result = "True"
        /\ return_value = IntValue(-4)
        /\ LeafLexemes = PrefixScenario

\* parse("-+12+34") has returned.
C14_Witness ==
    /\ grammar = prefix_grammar
    /\ result = "True"
    /\ Len(_tokens) = 7
    /\ _tokens[1].lexeme = "-"
    /\ _tokens[7].lexeme = "4"

\* C15: the parser of nested operations succeeds on
\* "a(e(0,1),e(x,y),e(0,0))" and return_value is the operation a whose
\* args are, flat and in input order, the operations e of '0' and '1',
\* of 'x' and 'y' and of '0' and '0'.
C15_OperationsScenario ==
    (result # "" /\ grammar = operations_grammar
        /\ _tokens = tokenize(operations_lexer, OperationsScenario).tokens) =>
        /\ result = "True"
        /\ return_value =
               Dict(Str("a"),
                    List(<<Dict(Str("e"), List(<<Str("0"), Str("1")>>)),
                           Dict(Str("e"), List(<<Str("x"), Str("y")>>)),
                           Dict(Str("e"), List(<<Str("0"), Str("0")>>))>>))

\* parse("a(e(0,1),e(x,y),e(0,0))") has returned.
C15_Witness ==
    /\ grammar = operations_grammar
    /\ result = "True"
    /\ Len(_tokens) = 23
    /\ return_value.k = "dict"
    /\ return_value.name = Str("a")

\* ------------------------------------------------------------------
\*   Claims about grammar construction
\* ------------------------------------------------------------------

\* C16: after any sequence of +, |, >> and +=, every Production in the
\* alternatives of a non-terminal N has head N, also when one Production
\* object is bound into more than one non-terminal.
C16_HeadIsBinder ==
    \A n \in NonTerminalNames : \A j \in 1..Len(bound[n]) :
        heap[bound[n][j]].head = NonTerminal(n)

\* The classes an alternation is claimed for.
Alternable == {"Terminal", "NonTerminal", "Production"}

\* The elements of the production an operand of | stands for: those of
\* the Production itself, or the symbol alone.
OperandElements(v) ==
    IF TypeOf(v) = "Production" THEN heap[v.id].elements ELSE <<v>>

\* C17: left | right of a Terminal, NonTerminal or Production with a
\* Terminal, NonTerminal or Production raises nothing and yields a
\* ProductionAlternatives of two productions, the left operand and then
\* the right one.
C17_AlternationOfAnyPair ==
    (operation.name = "|"
        /\ TypeOf(operation.left) \in Alternable
        /\ TypeOf(operation.right) \in Alternable) =>
        /\ thrown = ""
        /\ TypeOf(terms[Len(terms)]) = "ProductionAlternatives"
        /\ Len(terms[Len(terms)].productions) = 2
        /\ heap[terms[Len(terms)].productions[1]].elements = OperandElements(operation.left)
        /\ heap[terms[Len(terms)].productions[2]].elements = OperandElements(operation.right)

\* The operator applied next is a Production + something that is neither
\* a Terminal nor a NonTerminal, or a Terminal, NonTerminal or Production
\* >> something that is not a Return.
Misused ==
    \/ /\ operation'.name = "+"
       /\ TypeOf(operation'.left) = "Production"
       /\ TypeOf(operation'.right) \notin {"Terminal", "NonTerminal"}
    \/ /\ operation'.name = ">>"
       /\ TypeOf(operation'.left) \in Alternable
       /\ TypeOf(operation'.right) # "Return"

\* C18: a Production + anything but a Terminal or NonTerminal, and a
\* Terminal, NonTerminal or Production >> anything but a Return, raises
\* an error, and leaves the left operand, and every other object, as it
\* was.
C18_MisuseRaisesAndKeeps ==
    [][Misused => (thrown' = "TypeError" /\ heap' = heap /\ bound' = bound /\ terms' = terms)]_vars

\* A Production that has a Return and belongs to N was handed >> with
\* Epsilon(), which is not a Return, and the call raised.
C18_Witness ==
    /\ operation.name = ">>"
    /\ TypeOf(operation.left) = "Production"
    /\ operation.right = Epsilon
    /\ thrown = "TypeError"
    /\ heap[operation.left.id].return_value = Return("f")
    /\ bound["N"] = <<operation.left.id>>

\* ------------------------------------------------------------------
\*   Claims about TableRow and Table
\* ------------------------------------------------------------------

\* C19: two TableRow objects are equal iff their data and their defaults
\* are equal, two Table objects iff their rows and their defaults are
\* equal, and a TableRow or Table never equals a value of another type;
\* so a Table made by map equals a Table built from the mapped dicts.
C19_StructuralEquality ==
    compared.this # 0 =>
        (compared.equal <=>
            /\ compared.other # 0
            /\ objects[compared.other].class = objects[compared.this].class
            /\ objects[compared.other].value.data = objects[compared.this].value.data
            /\ objects[compared.other].value.default = objects[compared.this].value.default)

\* The row that the next lookup addresses, before the lookup.
LookedRow == RowOf(objects[looked'.owner], looked'.row_index)

\* C20: a lookup of a missing column returns the default itself if it is
\* not callable and else an object constructed by this very call, a
\* lookup of a present column returns the stored value, and no object
\* that existed before the lookup is changed by it.
C20_LookupReturnsAndKeeps ==
    [][looked'.owner # 0 =>
        /\ \A i \in 1..Len(objects) : objects'[i] = objects[i]
        /\ IF looked'.item \in DOMAIN LookedRow.data
           THEN looked'.value = LookedRow.data[looked'.item] /\ looked'.object = 0
           ELSE IF LookedRow.default.k = "callable"
           THEN /\ looked'.object = Len(objects) + 1
                /\ objects'[looked'.object] = Object("set", {})
                /\ looked'.value = {}
           ELSE looked'.value = LookedRow.default /\ looked'.object = 0]_vars

\* A column missing from a row with a column and the default set was
\* looked up, and the set constructed is the object created last.
C20_Witness ==
    /\ looked.owner # 0
    /\ looked.object = Len(objects)
    /\ objects[looked.owner].class = "TableRow"
    /\ DOMAIN objects[looked.owner].value.data = {"a"}
    /\ looked.item = "b"

\* The message for the data of the wrong shape: the first value that is
\* no row is a str in the one and an int in the other.
UnsupportedType(data) ==
    IF data \in {Str("string"), List(<<Str("s"), Str("t")>>)}
    THEN "Unsupported type: <class 'str'>"
    ELSE "Unsupported type: <class 'int'>"

\* C21: TableRow(data) with data that is given and is no dict, and
\* Table(data) with a row that is neither a dict nor a TableRow, raise
\* AutomatonError with the message "Unsupported type: <type>", and leave
\* no new object.
C21_WrongShapeRaises ==
    [][(made'.class = "TableRow" /\ made'.data \in BadRowData)
         \/ (made'.class = "Table" /\ made'.data \in BadTableData) =>
        /\ made'.error = "AutomatonError"
        /\ made'.message = UnsupportedType(made'.data)
        /\ objects' = objects]_vars

\* Table(data) has raised for a list whose first row is a dict and whose
\* second is an int, while an object made before is still there.
C21_Witness ==
    /\ made.class = "Table"
    /\ made.data = List(<<[c \in {"a"} |-> IntValue(1)], IntValue(0)>>)
    /\ made.message = "Unsupported type: <class 'int'>"
    /\ Len(objects) = 1

\* ------------------------------------------------------------------
\*   Claims about compile, the matchers and the parser when shared
\* ------------------------------------------------------------------

\* C22: whatever the module's parser was called with before, compile of
\* a pattern returns what compile of that pattern returns on a new
\* parser: the same transition table and the same finals, or the same
\* exception.
C22_CompileDeterministic ==
    result # "" => automaton = compile(NewParser, pattern).automaton

\* compile("a|b") has returned a DFA after an earlier compile on the
\* same parser.
C22_Witness ==
    /\ prev_result # ""
    /\ pattern = <<"a", "|", "b">>
    /\ automaton.k = "Dfa"
    /\ automaton.finals # {}

\* What a call of match returns when it runs alone.
MatchAlone(caller) ==
    IF caller.call = "Nfa.match"
    THEN (IF Nfa_match(shared.nfa, caller.string) THEN "True" ELSE "False")
    ELSE (IF Dfa_match(shared.dfa, caller.string) THEN "True" ELSE "False")

\* C23: no step of a match changes the shared NFA (its table and its
\* cache of epsilon-closures) or the shared DFA, and a match that has
\* returned, however the steps of the callers were interleaved, has
\* returned what the call returns alone.
C23_MatchersShareAutomaton ==
    [][/\ shared' = shared
       /\ \A m \in Callers :
              callers'[m].result # "" => callers'[m].result = MatchAlone(callers'[m])]_vars

\* A match on the shared NFA has returned True while another match on
\* it has read one character and not yet returned.
C23_Witness ==
    /\ callers # <<>>
    /\ shared # None
    /\ callers[1].call = "Nfa.match"
    /\ callers[1].result = "True"
    /\ callers[2].call = "Nfa.match"
    /\ callers[2].i = 2
    /\ callers[2].result = ""
    /\ Len(callers[2].string) >= 2

\* What parse(string) leaves and returns when the call of a caller runs
\* alone on the caller's parser.
ParseAlone(caller) ==
    parse(shared.grammar, shared.lexer, caller.entry, caller.string)

\* C24: no step of parse changes the shared grammar or lexer, and a
\* parse that has returned on a caller's own parser, however the steps
\* of the two callers were interleaved, has returned what it returns
\* alone and left the tree and return value it leaves alone.
C24_ParsersShareGrammar ==
    [][/\ shared' = shared
       /\ \A m \in Callers :
              (callers'[m].call = "parse" /\ callers'[m].at = "") =>
                  /\ callers'[m].result = ParseAlone(callers'[m]).result
                  /\ callers'[m].self = ParseAlone(callers'[m]).self]_vars

\* A parse has returned True with a tree while the other caller's parse
\* of another string has scanned and not yet built its tree.
C24_Witness ==
    /\ callers # <<>>
    /\ callers[1].call = "parse"
    /\ callers[1].at = ""
    /\ callers[1].result = "True"
    /\ callers[1].self.parse_tree # None
    /\ callers[2].call = "parse"
    /\ callers[2].at = "_scan"
    /\ callers[2].scan.ok
    /\ callers[2].string # callers[1].string

\* The cells of the transition table of an NFA.
Cells(nfa) ==
    UNION {{nfa.table.data[r].data[c] : c \in DOMAIN nfa.table.data[r].data} :
              r \in 1..Nfa_len(nfa)}

\* C25: in every NFA built by the combinators, nested in any way, every
\* cell of the transition table is a set of states of the NFA, that is
\* of numbers from 0 to its length less one.
C25_CellsWithinStates ==
    \A n \in 1..Len(operands) :
        \A cell \in Cells(operands[n]) : cell \subseteq 0..(Nfa_len(operands[n]) - 1)

\* The star of a union of two NFAs is built: eight states, and the last
\* state of the union leads to the first and to the final state.
C25_Witness ==
    /\ Len(operands) = 1
    /\ Nfa_len(operands[1]) = 8
    /\ EPSILON \in DOMAIN operands[1].table.data[7].data
    /\ operands[1].table.data[7].data[EPSILON] = {0, 7}
    /\ Cardinality(operands[1].table.data[2].data[EPSILON]) = 2

\* The leftmost derivation that applies the productions of stack in
\* order to the sentential form rest, after the terminals done: whether
\* each production applied was one of the leftmost non-terminal and
\* none was left over, and the terminals derived.
RECURSIVE LeftmostDerivation(_, _, _, _)
LeftmostDerivation(productions, done, rest, stack) ==
    IF rest = <<>> THEN [ok |-> stack = <<>>, terminals |-> done]
    ELSE IF Head(rest).t = "Terminal"
    THEN LeftmostDerivation(productions, Append(done, Head(rest).name), Tail(rest), stack)
    ELSE IF Head(rest).t = "Epsilon"
    THEN LeftmostDerivation(productions, done, Tail(rest), stack)
    ELSE IF stack = <<>> \/ Head(stack).head # Head(rest).name
    THEN [ok |-> FALSE, terminals |-> done]
    ELSE LeftmostDerivation(productions, done,
             ProductionOf(productions, Head(stack)).elements \o Tail(rest),
             Tail(stack))

\* The productions of the nodes of a tree in pre-order.
RECURSIVE PreOrder(_)
RECURSIVE PreOrderOf(_, _)
PreOrderOf(children, j) ==
    IF j > Len(children) THEN <<>>
    ELSE PreOrder(children[j]) \o PreOrderOf(children, j + 1)

PreOrder(element) ==
    IF element.k = "Leaf" THEN <<>>
    ELSE <<element.production>> \o PreOrderOf(element.children, 1)

\* C26: after a successful parse the stack, applied in order as a
\* leftmost derivation from the start symbol, derives exactly the
\* categories of the tokens with no production left over, and building
\* the tree uses every entry of the stack once: the cursor ends at the
\* length of the stack and the nodes in pre-order carry its entries.
C26_StackIsDerivation ==
    result = "True" =>
        /\ LeftmostDerivation(grammar.productions, <<>>,
               <<NonTerminal(grammar.non_terminals[1])>>, _stack)
           = [ok |-> TRUE,
              terminals |-> [i \in 1..Len(_tokens) |-> _tokens[i].category]]
        /\ _build_tree(grammar.productions, _stack, 0).error = ""
        /\ _build_tree(grammar.productions, _stack, 0).i = Len(_stack)
        /\ PreOrder(parse_tree.root) = _stack

\* A parse of three tokens has succeeded with the second alternative of
\* the start symbol, after the first had pushed a production of X and
\* was abandoned, and the stack holds three productions, the last of X.
C26_Witness ==
    /\ result = "True"
    /\ Len(_tokens) = 3
    /\ Len(_stack) = 3
    /\ _stack[1] = ProductionId("S", 2)
    /\ _stack[3].head = "X"
    /\ grammar.productions["S"][1].elements[1] = NonTerminal("X")

\* C27: a match that fails leaves the scan state it found: a failed
\* match of a production leaves the lookahead, a failed match of a
\* non-terminal leaves the lookahead and the stack, a failed match of a
\* terminal leaves both, and the match of Epsilon succeeds and leaves
\* both.
C27_FailedMatchRestores ==
    [][/\ (matched'.function = "_match_production" /\ result' = "False")
              => _lookahead' = _lookahead
       /\ (matched'.function = "_match_non_terminal" /\ result' = "False")
              => (_lookahead' = _lookahead /\ _stack' = _stack)
       /\ (matched'.function = "_match_terminal" /\ result' = "False")
              => (_lookahead' = _lookahead /\ _stack' = _stack)
       /\ matched'.function = "_match_production_element"
              => (result' = "True" /\ _lookahead' = _lookahead /\ _stack' = _stack)]_vars

\* The match of S has failed on the tokens a a a from the second token,
\* with a production on the stack, where the first alternative of S
\* begins with X, which matches before its terminal b fails.
C27_Witness ==
    /\ matched = [function |-> "_match_non_terminal", argument |-> NonTerminal("S")]
    /\ result = "False"
    /\ Len(_tokens) = 3
    /\ \A i \in 1..3 : _tokens[i].category = "a"
    /\ _lookahead = 1
    /\ _stack # <<>>
    /\ grammar.productions["S"][1].elements = <<NonTerminal("X"), Terminal("b")>>
    /\ grammar.productions["X"][1].elements[1] = Terminal("a")

\* The terminals and non-terminals among the elements of a production.
Symbols(elements) == SelectSeq(elements, LAMBDA e : e.t \in {"Terminal", "NonTerminal"})

\* The children of a node, and of the nodes below it, are those of the
\* node's production: one per terminal and non-terminal, in order.
RECURSIVE ChildrenOfProduction(_, _)
ChildrenOfProduction(productions, node) ==
    LET symbols == Symbols(ProductionOf(productions, node.production).elements) IN
    /\ Len(node.children) = Len(symbols)
    /\ \A j \in 1..Len(symbols) :
           IF symbols[j].t = "Terminal"
           THEN /\ node.children[j].k = "Leaf"
                /\ node.children[j].terminal = symbols[j]
           ELSE /\ node.children[j].k = "Node"
                /\ node.children[j].production.head = symbols[j].name
                /\ ChildrenOfProduction(productions, node.children[j])

RECURSIVE DefaultReducerFails(_, _)
DefaultReducerFails(productions, node) ==
    /\ node.k = "Node"
    /\ \/ /\ ProductionOf(productions, node.production).return_value = None
          /\ Len(node.children) # 1
       \/ \E j \in 1..Len(node.children) :
              DefaultReducerFails(productions, node.children[j])

\* C29: when the scan has succeeded and a node of the tree built from
\* the stack, the root included, has a production without a Return
\* object and not exactly one child, parse raises the error of the
\* default reducer and leaves no return value.
C29_ReductionErrorRaised ==
    (/\ result \notin {"", "False"}
     /\ _lookahead = LookaheadNone
     /\ _stack # <<>>
     /\ DefaultReducerFails(grammar.productions,
            _build_tree(grammar.productions, _stack, 0).node))
        => (result = "TypeError" /\ return_value = None)

\* The lengths of the first n tables, added up.
RECURSIVE LengthsBefore(_, _)
LengthsBefore(tables, n) ==
    IF n = 0 THEN 0 ELSE LengthsBefore(tables, n - 1) + Len(tables[n].data)

\* c is the concatenation of the tables: as long as all of them
\* together, with the offset of each table the length of those before
\* it, each row of each table found at the table's offset with the same
\* columns and its states moved by the offset, and the default of the
\* first table.
Concatenated(tables, c) ==
    /\ Table_len(c.table) = LengthsBefore(tables, Len(tables))
    /\ Len(c.offsets) = Len(tables)
    /\ \A i \in 1..Len(tables) :
           /\ c.offsets[i] = LengthsBefore(tables, i - 1)
           /\ \A r \in 0..(Len(tables[i].data) - 1) :
                  /\ TableRow_columns(Table_getitem(c.table, c.offsets[i] + r))
                     = TableRow_columns(Table_getitem(tables[i], r))
                  /\ \A column \in TableRow_columns(Table_getitem(tables[i], r)) :
                         Table_getitem(c.table, c.offsets[i] + r).data[column]
                         = {state + c.offsets[i] :
                               state \in Table_getitem(tables[i], r).data[column]}
    /\ c.table.default = tables[1].default

\* The tables of the NFAs under construction.
OperandTables == [j \in 1..Len(operands) |-> operands[j].table]

\* C30: _concat_tables of the tables of the NFAs built so far, alone or
\* between a table of one empty row with the default None and one with
\* the default set, gives the concatenation: length, offsets, rows with
\* their columns and shifted states, and the default of the first table.
C30_ConcatTables ==
    Len(operands) >= 1 =>
        /\ Concatenated(OperandTables, _concat_tables(OperandTables))
        /\ Concatenated(
               <<with_empty_row(None)>> \o OperandTables \o <<with_empty_row(DefaultSet)>>,
               _concat_tables(
                   <<with_empty_row(None)>> \o OperandTables \o <<with_empty_row(DefaultSet)>>))

\* Three NFAs are built, of two, four and two states, the second by a
\* concatenation, so that the offsets are 0, 2 and 6.
C30_Witness ==
    /\ Len(operands) = 3
    /\ Nfa_len(operands[1]) = 2
    /\ Nfa_len(operands[2]) = 4
    /\ Nfa_len(operands[3]) = 2
    /\ operands[2].table.data[2].data = DictSet(EmptyDict, EPSILON, {2})
    /\ _concat_tables(OperandTables).offsets = <<0, 2, 6>>

\* The cells of a row with every state moved by the offset.
Rebased(row, offset) ==
    [column \in DOMAIN row.data |-> {state + offset : state \in row.data[column]}]

\* The place of operand i in a union: after row 0 and the operands
\* before it.
UnionOffset(nfas, i) ==
    1 + LengthsBefore([j \in 1..Len(nfas) |-> nfas[j].table], i - 1)

\* u is the union of the NFAs: two states more than all of them, row 0
\* with EPSILON alone, to the first state of each, the last row of each
\* with EPSILON to the final state, its rows otherwise those of the
\* NFAs moved to their places; and u accepts a non-empty string exactly
\* when one of the NFAs does.
IsUnion(nfas, u) ==
    /\ Nfa_len(u) = 2 + LengthsBefore([j \in 1..Len(nfas) |-> nfas[j].table], Len(nfas))
    /\ Table_getitem(u.table, 0).data
           = DictSet(EmptyDict, EPSILON, {UnionOffset(nfas, i) : i \in 1..Len(nfas)})
    /\ \A i \in 1..Len(nfas) :
           /\ \A r \in 0..(Nfa_len(nfas[i]) - 2) :
                  Table_getitem(u.table, UnionOffset(nfas, i) + r).data
                      = Rebased(Table_getitem(nfas[i].table, r), UnionOffset(nfas, i))
           /\ Table_getitem(u.table, UnionOffset(nfas, i) + Nfa_final(nfas[i])).data
                  = DictSet(Rebased(Table_getitem(nfas[i].table, Nfa_final(nfas[i])),
                                    UnionOffset(nfas, i)),
                            EPSILON, {Nfa_final(u)})
    /\ \A w \in Strings({"a", "b"}, MaxLen) \ {<<>>} :
           Nfa_match(u, w) <=> \E i \in 1..Len(nfas) : Nfa_match(nfas[i], w)

\* C31: the union of the NFAs built so far has two states more than all
\* of them; row 0 has EPSILON alone, to the moved first state of each;
\* the moved last row of each has EPSILON to the final state; the other
\* rows are the moved rows of the NFAs; and the union accepts a
\* non-empty string exactly when one of the NFAs does.
C31_UnionOfOperands ==
    Len(operands) >= 1 => IsUnion(operands, Nfa_union(operands))

\* Two NFAs are built, the first a union of six states, and their union
\* accepts b, which the first accepts and the second does not.
C31_Witness ==
    /\ Len(operands) = 2
    /\ Nfa_len(operands[1]) = 6
    /\ Cardinality(Table_getitem(operands[1].table, 0).data[EPSILON]) = 2
    /\ Nfa_match(operands[1], <<"b">>)
    /\ ~Nfa_match(operands[2], <<"b">>)
    /\ Nfa_match(Nfa_union(operands), <<"b">>)

\* The strings an NFA is tried on as the parts of a repetition.
Parts == Strings({"a", "b"}, MaxLen - 1)

\* s is the star of the NFA: two states more, row 0 with EPSILON alone,
\* to state 1 and the final state, the last row of the NFA with EPSILON
\* to state 0 and the final state, its rows otherwise those of the NFA
\* moved by one; the final state is in the closure of state 0, and s
\* accepts what the NFA accepts and two or three of those in a row.
IsStar(nfa, s) ==
    /\ Nfa_len(s) = Nfa_len(nfa) + 2
    /\ Table_getitem(s.table, 0).data = DictSet(EmptyDict, EPSILON, {1, Nfa_final(s)})
    /\ \A r \in 0..(Nfa_len(nfa) - 2) :
           Table_getitem(s.table, 1 + r).data = Rebased(Table_getitem(nfa.table, r), 1)
    /\ Table_getitem(s.table, Nfa_final(s) - 1).data
           = DictSet(Rebased(Table_getitem(nfa.table, Nfa_final(nfa)), 1),
                     EPSILON, {0, Nfa_final(s)})
    /\ Table_getitem(s.table, Nfa_final(s)).data = EmptyDict
    /\ Nfa_final(s) \in epsilon_closure_int(s, 0)
    /\ \A w1 \in Parts :
           Nfa_match(nfa, w1) =>
               /\ Nfa_match(s, w1)
               /\ \A w2 \in Parts :
                      Nfa_match(nfa, w2) =>
                          /\ Nfa_match(s, w1 \o w2)
                          /\ Nfa_match(s, w1 \o w2 \o w1)

\* C32: the star of the NFA built last has two states more than it; row
\* 0 has EPSILON to 1 and the final state; the row before the final
\* state, the last of the NFA, has EPSILON to 0 and the final state; the
\* other rows are the rows of the NFA moved by one; the final state is
\* in the closure of state 0 and the star accepts every string made of
\* one, two or three strings the NFA accepts.
C32_StarOfOperand ==
    Len(operands) >= 1 => IsStar(Operand(1), Nfa_star(Operand(1)))

\* The NFA built last is the concatenation of a and b, and its star
\* accepts abab.
C32_Witness ==
    /\ Len(operands) >= 1
    /\ Nfa_len(Operand(1)) = 4
    /\ Nfa_match(Operand(1), <<"a", "b">>)
    /\ Nfa_match(Nfa_star(Operand(1)), <<"a", "b", "a", "b">>)
    /\ ~Nfa_match(Nfa_star(Operand(1)), <<"a", "b", "a">>)

\* What _translate_nfa leaves for an NFA w registered: state 0 stands
\* for the closure of state 0 of the NFA and for no other set, and a
\* state is final exactly when the set it stands for holds the final
\* state of the NFA.
SubsetsRegistered(nfa, w) ==
    /\ epsilon_closure_int(nfa, 0) \in DOMAIN w.registered_states
    /\ \A states \in DOMAIN w.registered_states :
           /\ w.registered_states[states] = 0 <=> states = epsilon_closure(nfa, {0})
           /\ w.registered_states[states] \in w.finals <=> Nfa_final(nfa) \in states
    /\ w.finals \subseteq {w.registered_states[states] : states \in DOMAIN w.registered_states}

\* C33: in the DFA of the NFA built last, state 0 stands for the
\* epsilon-closure of {0}, and a state is in finals exactly when the set
\* of NFA states registered for it holds the final state of the NFA.
C33_FinalsOfDfa ==
    Len(operands) >= 1 =>
        /\ SubsetsRegistered(Operand(1), _translate_nfa(Operand(1)))
        /\ Dfa(Operand(1)).finals = _translate_nfa(Operand(1)).finals

\* The NFA built last accepts ab alone: its DFA has three states, of
\* which the last is final.
C33_Witness ==
    /\ Len(operands) >= 1
    /\ Nfa_len(Operand(1)) = 4
    /\ Cardinality(DOMAIN _translate_nfa(Operand(1)).registered_states) = 3
    /\ Dfa(Operand(1)).finals = {2}

\* C34: in a grammar that was constructed the names of the
\* non-terminals differ from one another, the look-up of the name of a
\* non-terminal of the grammar, or of that non-terminal, returns it,
\* and index 0 gives the non-terminal declared first.
C34_NamesUnique ==
    grammar # None =>
        /\ \A i, j \in 1..Len(grammar.non_terminals) :
               i # j => grammar.non_terminals[i].name # grammar.non_terminals[j].name
        /\ \A i \in 1..Len(grammar.non_terminals) :
               /\ Grammar_getitem(grammar, Str(grammar.non_terminals[i].name)).value
                      = grammar.non_terminals[i]
               /\ Grammar_getitem(grammar, grammar.non_terminals[i]).value
                      = grammar.non_terminals[i]
        /\ Grammar_getitem(grammar, IntValue(0)).value = grammar.non_terminals[1]

\* The addresses of the objects an Nfa is made of: its rows, their
\* dicts, the sets in their cells and the sets of its cache.
AddressesOf(h, nfa) ==
    {nfa.table[r] : r \in 1..Len(nfa.table)}
    \cup {h[nfa.table[r]].value : r \in 1..Len(nfa.table)}
    \cup UNION {{h[h[nfa.table[r]].value].value[c] : c \in DOMAIN h[h[nfa.table[r]].value].value} :
                   r \in 1..Len(nfa.table)}
    \cup {nfa._epsilon_closure[n] : n \in 1..Len(nfa._epsilon_closure)}

\* The rows, dicts, cells and cached sets of an Nfa, counted by their
\* places in it.
RECURSIVE PlacesOf(_, _, _)
PlacesOf(h, nfa, r) ==
    IF r > Len(nfa.table) THEN 0
    ELSE 3 + Cardinality(DOMAIN h[h[nfa.table[r]].value].value) + PlacesOf(h, nfa, r + 1)

\* C35: when concat, union or star returns, every object there was
\* before is as it was (so the rows, cells and caches of the operands
\* are unchanged), the objects of the new Nfa are all new, and no two
\* places of the new Nfa hold the same row, dict or set, also when an
\* operand is used twice.
C35_OperandsUnmodified ==
    [][made'.class \in {"concat", "union", "star"} =>
          /\ \A a \in 1..Len(objects) : objects'[a] = objects[a]
          /\ \A n \in 1..Len(operands) : operands'[n] = operands[n]
          /\ \A a \in AddressesOf(objects', operands'[Len(operands')]) : a > Len(objects)
          /\ Cardinality(AddressesOf(objects', operands'[Len(operands')]))
                 = PlacesOf(objects', operands'[Len(operands')], 1)]_vars

\* x+ was built as concat(x, star(x)) from one object x.
C35_Witness ==
    /\ Len(operands) = 3
    /\ made.class = "concat"
    /\ made.data = <<1, 2>>
    /\ Nfa(TableOf(objects, operands[1].table)) = Nfa_char("a")
    /\ Nfa(TableOf(objects, operands[2].table)) = Nfa_star(Nfa_char("a"))
    /\ Nfa(TableOf(objects, operands[3].table))
           = Nfa_concat(<<Nfa_char("a"), Nfa_star(Nfa_char("a"))>>)
    /\ \A n \in 1..Len(operands[3]._epsilon_closure) :
           objects[operands[3]._epsilon_closure[n]].value
               = Nfa_concat(<<Nfa_char("a"), Nfa_star(Nfa_char("a"))>>)._epsilon_closure[n]

\* The tables Nfa.union and Nfa.star concatenate around the operands.
BetweenEmptyRows(tables) ==
    <<with_empty_row(DefaultSet)>> \o tables \o <<with_empty_row(DefaultSet)>>

\* The rows table[offset - 1] for the offsets from position from on have
\* no epsilon-transition.
NoEpsilonBefore(c, from) ==
    \A j \in from..Len(c.offsets) :
        EPSILON \notin TableRow_columns(Table_getitem(c.table, c.offsets[j] - 1))

\* C36: the last row of every NFA built by the combinators has no
\* column at all, neither a character nor EPSILON; and in the tables
\* that concat, union and star concatenate from such NFAs the rows whose
\* EPSILON cell they then assign have no EPSILON cell yet.
C36_FinalRowEmpty ==
    /\ \A n \in 1..Len(operands) :
           TableRow_columns(Table_getitem(operands[n].table, Nfa_final(operands[n]))) = {}
    /\ Len(operands) >= 2 =>
           /\ NoEpsilonBefore(_concat_tables(<<Operand(2).table, Operand(1).table>>), 2)
           /\ NoEpsilonBefore(
                  _concat_tables(BetweenEmptyRows(<<Operand(2).table, Operand(1).table>>)), 3)
    /\ Len(operands) >= 1 =>
           NoEpsilonBefore(_concat_tables(BetweenEmptyRows(<<Operand(1).table>>)), 3)

\* A star and a concatenation are the operands, built from three chars.
C36_Witness ==
    /\ Len(operands) = 2
    /\ Operand(2) = Nfa_star(Nfa_char("a"))
    /\ Operand(1) = Nfa_concat(<<Nfa_char("a"), Nfa_char("b")>>)
    /\ TableRow_columns(Table_getitem(Operand(1).table, 1)) = {EPSILON}

Translating == automaton # None

Translated == automaton # None /\ automaton.w.stack = <<>>

\* The DFA states are 0..n-1, one for each registered set, every one of
\* them has a row whose next states are among them, and the sets popped
\* are the registered sets, each popped once.
ClosedAndComplete(t) ==
    /\ {t.w.registered_states[states] : states \in DOMAIN t.w.registered_states}
           = 0..(Cardinality(DOMAIN t.w.registered_states) - 1)
    /\ \A s1, s2 \in DOMAIN t.w.registered_states :
           t.w.registered_states[s1] = t.w.registered_states[s2] => s1 = s2
    /\ DOMAIN t.w.data = 0..(Cardinality(DOMAIN t.w.registered_states) - 1)
    /\ \A i \in DOMAIN t.w.data : \A char \in DOMAIN t.w.data[i] :
           t.w.data[i][char] \in 0..(Cardinality(DOMAIN t.w.registered_states) - 1)
    /\ Len(t.processed) = Cardinality(DOMAIN t.w.registered_states)
    /\ {t.processed[i] : i \in 1..Len(t.processed)} = DOMAIN t.w.registered_states

\* C37: the subset construction of an NFA built by the combinators
\* comes to an end, and at its end every registered set of NFA states
\* was popped exactly once, the DFA states are exactly 0..n-1 with
\* different sets at different states, every state has a row, and every
\* next state in the table is one of them.
C37_SubsetConstructionTerminates ==
    /\ [](Translated => ClosedAndComplete(automaton))
    /\ Translating ~> Translated

\* The translation of an NFA with a star has ended with three DFA
\* states or more, and with what _translate_nfa returns.
C37_Witness ==
    /\ Translated
    /\ Cardinality(DOMAIN automaton.w.registered_states) >= 3
    /\ Len(automaton.processed) >= 3
    /\ \E r \in 1..Nfa_len(automaton.nfa) :
           0 \in TableRow_getitem(Table_getitem(automaton.nfa.table, r - 1), EPSILON)
    /\ automaton.w = _translate_nfa(automaton.nfa)

\* C38: for a grammar without left recursion the match that parse
\* starts on the tokens of its input comes to an end and returns true
\* or false: it raises nothing.
C38_MatchReturns ==
    (result # "" /\ NoLeftRecursion(grammar.productions)) =>
        /\ _scan(grammar.productions, grammar.non_terminals[1], _tokens,
                 _reset(NewParser, _tokens)._lookahead, <<>>).error = ""
        /\ _scan(grammar.productions, grammar.non_terminals[1], _tokens,
                 _reset(NewParser, _tokens)._lookahead, <<>>).ok \in BOOLEAN

\* The call of parse that has just ended returned or raised what out
\* holds, and when it returned it left the stack, the parse tree and
\* the return value of out.
SameOutcome(out) ==
    /\ result' = out.result
    /\ result' \in {"True", "False"} =>
           /\ _stack' = out.self._stack
           /\ parse_tree' = out.self.parse_tree
           /\ return_value' = out.self.return_value

\* C39: whatever calls of parse came before on the parser, a call of
\* parse is a call parse(w) that returns or raises what parse(w) does on
\* a new parser of the grammar and the lexer, and when it returns it
\* leaves the same stack of productions, the same parse tree with its
\* leaves, and the same return value.
C39_ParseIgnoresHistory ==
    [][\E input \in PoolInputs :
          /\ tokenize(lexer, input).tokens = _tokens'
          /\ SameOutcome(parse(grammar, lexer, NewParser, input))]_vars

\* A parse has returned False on a parser whose call before returned
\* True, and has left no tree.
C39_Witness ==
    /\ prev_result = "True"
    /\ result = "False"
    /\ _tokens # <<>>
    /\ parse_tree = None
    /\ return_value = None

====
